---- MODULE Spec2Model ----
(***************************************************************************)
(* FlowX validation pipeline: the chunked, concurrent row validation of    *)
(* app/crawler/validation_pipeline.py and app/crawler/validator.py.        *)
(***************************************************************************)
EXTENDS Integers, Sequences, FiniteSets, TLC

(* ------------------------------------------------------------------ *)
(* Bounds of the model                                                  *)
(* ------------------------------------------------------------------ *)
MaxRows == 5
MaxExcelRows == 2
MaxDirectRows == 2
MaxChunk == 3
MaxWorkers == 2
MaxEvents == 4

(* ------------------------------------------------------------------ *)
(* Python values as the readers produce them: a cell is None, a str,   *)
(* an int or a date; s is str(value).                                   *)
(* ------------------------------------------------------------------ *)
None == [py |-> "NoneType", s |-> "None"]
PyStr(t) == [py |-> "str", s |-> t]
PyInt(t) == [py |-> "int", s |-> t]
PyDate(t) == [py |-> "date", s |-> t]

\* str.strip() on the texts of the model: "" and " " are the blank ones.
Strip(t) == IF t \in {"", " "} THEN "" ELSE t

\* str.lower() on the names of the model.
LowerTable ==
    ("Email" :> "email") @@ ("AGE" :> "age") @@ ("FAIL_ALL" :> "fail_all")
    @@ ("Keep_First" :> "keep_first") @@ ("Entra" :> "entra")
Lower(t) == IF t \in DOMAIN LowerTable THEN LowerTable[t] ELSE t

\* dict.get(key) of a row: None when the key is missing.
Get(row, col) == IF col \in DOMAIN row THEN row[col] ELSE None

\* The texts int(), float(), Decimal() and datetime.fromisoformat() accept.
IntTexts == {"30"}
FloatTexts == {"30", "1.5"}
DecimalTexts == {"30", "1.5"}
IsoTexts == {"2024-01-31"}

\* re.match(pattern, text): a match anchored at the start of text only.
RegexMatch(rx, t) ==
    CASE rx = "[0-9]+" -> t \in {"30", "1.5", "2024-01-31"}
      [] rx = ".+@.+"  -> t \in {"a@x.com", "b@x.com"}
      [] OTHER         -> FALSE

\* re.compile(pattern): the re.error message for a malformed pattern.
RegexError(rx) ==
    IF rx = "[0-9" THEN "unterminated character set at position 0" ELSE "<none>"

\* ", ".join(parts)
RECURSIVE Join(_)
Join(parts) ==
    IF parts = <<>> THEN ""
    ELSE IF Len(parts) = 1 THEN parts[1]
    ELSE parts[1] \o ", " \o Join(Tail(parts))

(* ------------------------------------------------------------------ *)
(* Rules preparation (validator.py, prep_rules_from_dict)               *)
(* ------------------------------------------------------------------ *)
\* A dict with insertion order, as a sequence of <<key, value>> pairs.
DictKeys(d) == {d[i][1] : i \in 1..Len(d)}
DictSet(d, k, v) ==
    IF k \in DictKeys(d)
    THEN [i \in 1..Len(d) |-> IF d[i][1] = k THEN <<k, v>> ELSE d[i]]
    ELSE Append(d, <<k, v>>)

\* r = dict(rule); r["_regex_compiled"] only for a truthy "regex".
CompileRule(rule) ==
    [required |-> rule.required, type |-> rule.type,
     _regex_compiled |-> IF rule.regex # "" THEN rule.regex ELSE ""]

RECURSIVE PrepColumns(_, _)
PrepColumns(cols, acc) ==
    IF cols = <<>> THEN acc
    ELSE PrepColumns(Tail(cols),
                     DictSet(acc, Lower(cols[1][1]), CompileRule(cols[1][2])))

\* The re.error that leaves prep_rules_from_dict: that of the first column,
\* in document order, whose truthy "regex" does not compile.
RECURSIVE CompileError(_)
CompileError(cols) ==
    IF cols = <<>> THEN "<none>"
    ELSE IF RegexError(cols[1][2].regex) # "<none>"
         THEN RegexError(cols[1][2].regex)
         ELSE CompileError(Tail(cols))

\* Returns <<rules, unique_constraints, unique_mode>>.
prep_rules_from_dict(cfg) ==
    << PrepColumns(cfg.columns, <<>>),
       [i \in 1..Len(cfg.unique_constraints) |-> Lower(cfg.unique_constraints[i])],
       Lower(IF cfg.unique_mode = "<absent>" THEN "ignore" ELSE cfg.unique_mode) >>

(* ------------------------------------------------------------------ *)
(* Duplicate index (validator.py, build_duplicate_index)                *)
(* ------------------------------------------------------------------ *)
\* Mutant: the key built with row.get(col) or "".
KeyOfEmptyForNone(row, unique_constraints) ==
    [c \in 1..Len(unique_constraints) |->
        IF Get(row, unique_constraints[c]) = None THEN PyStr("")
        ELSE Get(row, unique_constraints[c])]

\* tuple(row.get(col) for col in unique_constraints)
KeyOf(row, unique_constraints) ==
    [c \in 1..Len(unique_constraints) |-> Get(row, unique_constraints[c])]

\* Mutant: dup_map filled for the keys that occur more than once only.
RECURSIVE DupPassRepeatedOnly(_, _, _, _, _)
DupPassRepeatedOnly(records, unique_constraints, idx, counts, first_seen) ==
    IF idx > Len(records)
    THEN [k \in {k2 \in DOMAIN counts : counts[k2] > 1} |->
            <<counts[k], first_seen[k]>>]
    ELSE LET key == KeyOf(records[idx], unique_constraints)
         IN DupPassRepeatedOnly(records, unique_constraints, idx + 1,
                    IF key \in DOMAIN counts
                    THEN [counts EXCEPT ![key] = @ + 1]
                    ELSE (key :> 1) @@ counts,
                    IF key \in DOMAIN first_seen
                    THEN first_seen
                    ELSE (key :> idx) @@ first_seen)

\* One pass over the records: counts and first_seen, then dup_map.
RECURSIVE DupPass(_, _, _, _, _)
DupPass(records, unique_constraints, idx, counts, first_seen) ==
    IF idx > Len(records)
    THEN [k \in DOMAIN counts |-> <<counts[k], first_seen[k]>>]
    ELSE LET key == KeyOf(records[idx], unique_constraints)
         IN DupPass(records, unique_constraints, idx + 1,
                    IF key \in DOMAIN counts
                    THEN [counts EXCEPT ![key] = @ + 1]
                    ELSE (key :> 1) @@ counts,
                    IF key \in DOMAIN first_seen
                    THEN first_seen
                    ELSE (key :> idx) @@ first_seen)

\* Mutant: build_duplicate_index without its early return.
BuildIndexNoEarlyReturn(records, unique_constraints) ==
    DupPass(records, unique_constraints, 1, <<>>, <<>>)

build_duplicate_index(records, unique_constraints) ==
    IF unique_constraints = <<>> THEN <<>>
    ELSE DupPass(records, unique_constraints, 1, <<>>, <<>>)

(* ------------------------------------------------------------------ *)
(* Row validation (validator.py, _validate_row and validate_chunk)      *)
(* ------------------------------------------------------------------ *)
\* The try block: TRUE when the coercion of value to typ raises.
CoercionFails(typ, value) ==
    CASE typ = "int"     -> IF value.py = "str" THEN value.s \notin IntTexts
                            ELSE value.py # "int"
      [] typ = "float"   -> IF value.py = "str" THEN value.s \notin FloatTexts
                            ELSE value.py # "int"
      [] typ = "decimal" -> value.s \notin DecimalTexts
      [] typ = "date"    -> value.py # "date" /\ value.s \notin IsoTexts
      [] OTHER           -> FALSE

\* The class of the exception the coercion of value to typ raises inside the
\* try block, "<none>" when it returns.
ExceptionOf(typ, value) ==
    CASE typ \in {"int", "float"} ->
              IF value.py = "str"
              THEN (IF value.s \in (IF typ = "int" THEN IntTexts ELSE FloatTexts)
                    THEN "<none>" ELSE "ValueError")
              ELSE IF value.py = "int" THEN "<none>" ELSE "TypeError"
      [] typ = "decimal" ->
              IF value.s \in DecimalTexts THEN "<none>" ELSE "InvalidOperation"
      [] typ = "date" ->
              IF value.py = "date" \/ value.s \in IsoTexts
              THEN "<none>" ELSE "ValueError"
      [] OTHER -> "<none>"

\* Mutant: except ValueError.
CaughtValueErrorOnly(exc) == exc = "ValueError"

\* except Exception: every class the coercions raise derives from Exception.
Caught(exc) == exc \in {"ValueError", "TypeError", "InvalidOperation"}

\* The exception that leaves the loop body for one field, "<none>" when the
\* body completes. Outside the try block the body calls str(), strip(),
\* dict.get and a compiled pattern's match on str(value): none of them raises.
FieldRaises(normalized, field, rule) ==
    LET value == Get(normalized, field) IN
    IF rule.required /\ (value = None \/ Strip(value.s) = "") THEN "<none>"
    ELSE IF value = None \/ value = PyStr("") THEN "<none>"
    ELSE IF Caught(ExceptionOf(rule.type, value)) THEN "<none>"
    ELSE ExceptionOf(rule.type, value)

\* Mutant: the required branch without its continue.
FieldErrorsNoContinue(normalized, field, rule) ==
    LET value == Get(normalized, field)
        required == IF rule.required /\ (value = None \/ Strip(value.s) = "")
                    THEN << field \o " is required" >> ELSE << >>
    IN required \o
       (IF value = None \/ value = PyStr("")
        THEN <<>>
        ELSE IF CoercionFails(rule.type, value)
        THEN << field \o " invalid " \o rule.type >>
        ELSE IF rule._regex_compiled # "" /\ ~RegexMatch(rule._regex_compiled, value.s)
        THEN << field \o " does not match pattern" >>
        ELSE <<>>)

\* The body of the loop over rules.items() for one field: the messages it
\* appends to errors.
FieldErrors(normalized, field, rule) ==
    LET value == Get(normalized, field) IN
    IF rule.required /\ (value = None \/ Strip(value.s) = "")
    THEN << field \o " is required" >>
    ELSE IF value = None \/ value = PyStr("")
    THEN <<>>
    ELSE IF CoercionFails(rule.type, value)
    THEN << field \o " invalid " \o rule.type >>
    ELSE IF rule._regex_compiled # "" /\ ~RegexMatch(rule._regex_compiled, value.s)
    THEN << field \o " does not match pattern" >>
    ELSE <<>>

\* Mutant: the loop over the fields left at the first violation.
RECURSIVE RulesErrorsFirstOnly(_, _)
RulesErrorsFirstOnly(normalized, rules) ==
    IF rules = <<>> THEN <<>>
    ELSE IF FieldErrors(normalized, rules[1][1], rules[1][2]) # <<>>
         THEN FieldErrors(normalized, rules[1][1], rules[1][2])
         ELSE RulesErrorsFirstOnly(normalized, Tail(rules))

RECURSIVE RulesErrors(_, _)
RulesErrors(normalized, rules) ==
    IF rules = <<>> THEN <<>>
    ELSE FieldErrors(normalized, rules[1][1], rules[1][2])
         \o RulesErrors(normalized, Tail(rules))

DuplicateMessage(unique_constraints) ==
    "Duplicate based on " \o Join(unique_constraints)

\* Mutant: fail_all exempts the first-seen row, as keep_first does.
DuplicateErrorsFirstExempt(normalized, row_index, dup_index, unique_constraints, unique_mode) ==
    IF unique_constraints # <<>> /\ unique_mode # "ignore"
    THEN LET key == KeyOf(normalized, unique_constraints)
             hit == IF key \in DOMAIN dup_index THEN dup_index[key]
                    ELSE <<1, row_index>>
         IN IF hit[1] > 1 /\ row_index # hit[2]
            THEN << DuplicateMessage(unique_constraints) >>
            ELSE <<>>
    ELSE <<>>

\* The duplicate policy block.
DuplicateErrors(normalized, row_index, dup_index, unique_constraints, unique_mode) ==
    IF unique_constraints # <<>> /\ unique_mode # "ignore"
    THEN LET key == KeyOf(normalized, unique_constraints)
             hit == IF key \in DOMAIN dup_index THEN dup_index[key]
                    ELSE <<1, row_index>>
         IN IF hit[1] > 1
               /\ (unique_mode = "fail_all"
                   \/ (unique_mode = "keep_first" /\ row_index # hit[2]))
            THEN << DuplicateMessage(unique_constraints) >>
            ELSE <<>>
    ELSE <<>>

NormalizeRow(row) ==
    [k2 \in {Lower(k) : k \in DOMAIN row} |->
        row[CHOOSE k \in DOMAIN row : Lower(k) = k2]]

\* The exception that leaves _validate_row, "<none>" when it returns: that of
\* the first field, in rules order, whose loop body raises.
RECURSIVE RowRaises(_, _)
RowRaises(normalized, rules) ==
    IF rules = <<>> THEN "<none>"
    ELSE IF FieldRaises(normalized, rules[1][1], rules[1][2]) # "<none>"
         THEN FieldRaises(normalized, rules[1][1], rules[1][2])
         ELSE RowRaises(normalized, Tail(rules))

\* Mutant: the duplicate policy block ahead of the field loop.
RowErrorsDuplicateFirst(row, row_index, rules, dup_index, unique_constraints, unique_mode) ==
    DuplicateErrors(NormalizeRow(row), row_index, dup_index,
                    unique_constraints, unique_mode)
    \o RulesErrors(NormalizeRow(row), rules)

\* The local list errors of _validate_row when it returns.
RowErrors(row, row_index, rules, dup_index, unique_constraints, unique_mode) ==
    RulesErrors(NormalizeRow(row), rules)
    \o DuplicateErrors(NormalizeRow(row), row_index, dup_index,
                       unique_constraints, unique_mode)

_validate_row(row, row_index, rules, dup_index, unique_constraints, unique_mode) ==
    LET errors == RowErrors(row, row_index, rules, dup_index,
                            unique_constraints, unique_mode)
    IN [Valid |-> IF errors = <<>> THEN "Success" ELSE "Fail",
        Remarks |-> IF errors # <<>> THEN Join(errors)
                    ELSE "Validated Successfully"]
       @@ NormalizeRow(row)

\* Mutant: the else branch as elif vr["Valid"] == "Failed".
validate_chunk_FailedLiteral(records_slice, start_index, rules, dup_index, unique_constraints, unique_mode) ==
    LET validated ==
            [j \in 1..Len(records_slice) |->
                _validate_row(records_slice[j], start_index + j - 1, rules,
                              dup_index, unique_constraints, unique_mode)]
    IN << validated,
          Cardinality({j \in 1..Len(validated) : validated[j].Valid = "Success"}),
          Cardinality({j \in 1..Len(validated) : validated[j].Valid = "Failed"}) >>

\* Returns <<validated, success, failure>>.
validate_chunk(records_slice, start_index, rules, dup_index, unique_constraints, unique_mode) ==
    LET validated ==
            [j \in 1..Len(records_slice) |->
                _validate_row(records_slice[j], start_index + j - 1, rules,
                              dup_index, unique_constraints, unique_mode)]
        success == Cardinality({j \in 1..Len(validated) : validated[j].Valid = "Success"})
    IN << validated, success, Len(validated) - success >>

(* ------------------------------------------------------------------ *)
(* Inputs of a run                                                      *)
(* ------------------------------------------------------------------ *)
\* Content types as read_file_from_s3 returns them (lowercased).
ExcelType == "application/vnd.openxmlformats-officedocument.spreadsheetml.sheet"
CsvType == "text/csv"
ContentTypes == {ExcelType, CsvType, "application/pdf", ""}
IsSpreadsheet(ct) == ct = ExcelType
\* Mutant: a missing content type read as delimited text.
IsCsvOrMissing(ct) == ct \in {CsvType, ""}
IsCsv(ct) == ct = CsvType

\* Rows of a delimited-text file: every cell is a str.
CsvRows ==
    { [email |-> PyStr("a@x.com"), age |-> PyStr("30")],
      [email |-> PyStr("b@x.com"), age |-> PyStr("bad")] }
\* Rows of a spreadsheet: cells keep their type, an empty cell is None.
ExcelRows ==
    { [email |-> PyStr("a@x.com"), age |-> PyInt("30")],
      [email |-> PyStr("a@x.com"), age |-> PyStr("bad")],
      [email |-> None, age |-> PyDate("2024-01-31")] }

SeqsUpTo(S, n) == UNION {[1..k -> S] : k \in 0..n}

RecordSeqs(ct) ==
    IF IsSpreadsheet(ct) THEN SeqsUpTo(ExcelRows, MaxExcelRows)
    ELSE SeqsUpTo(CsvRows, MaxRows)

\* Rule documents of the rules store.
AgeRule == [required |-> TRUE, type |-> "int", regex |-> ""]
EmailRule == [required |-> TRUE, type |-> "str", regex |-> ".+@.+"]
RuleDocs ==
    { [columns |-> << <<"age", AgeRule>> >>,
       unique_constraints |-> << "email" >>, unique_mode |-> "fail_all"],
      [columns |-> << <<"AGE", AgeRule>> >>,
       unique_constraints |-> << "Email" >>, unique_mode |-> "Keep_First"],
      [columns |-> << <<"Email", EmailRule>>, <<"age", AgeRule>> >>,
       unique_constraints |-> << >>, unique_mode |-> "FAIL_ALL"],
      [columns |-> << <<"age", AgeRule>> >>,
       unique_constraints |-> << "email" >>, unique_mode |-> "<absent>"] }

\* A stored document one of whose patterns is malformed.
MalformedRuleDocs ==
    { [columns |-> << <<"age", AgeRule>>,
                      <<"email", [required |-> FALSE, type |-> "str",
                                  regex |-> "[0-9"]>> >>,
       unique_constraints |-> << "email" >>, unique_mode |-> "fail_all"] }
StoredRuleDocs == RuleDocs \cup MalformedRuleDocs

(* ------------------------------------------------------------------ *)
(* State                                                                *)
(* ------------------------------------------------------------------ *)
VARIABLES
    pc,                 \* position of run_excel_validation_pipeline
    CHUNK_SIZE,         \* module constant CHUNK_SIZE, scaled down
    WORKERS,            \* module constant WORKERS, scaled down
    audit,              \* the AuditLog row of the run
    content_type,       \* what the blob store returned
    records,            \* list(records_iter)
    rules, unique_cols, unique_mode,    \* prep_rules_from_dict(rules_cfg)
    dup_index,          \* build_duplicate_index(records, unique_cols)
    chunks,             \* [(i, records[i:i+CHUNK_SIZE]), ...]
    batch_start,        \* loop variable of the batch loop
    tasks,              \* state of each task of the running task group
    results,            \* the list the tasks of a batch append to
    merge_pos,          \* position in sorted(results) of the merge loop
    validated_records, processed, total_success, total_failure,
    excel_bytes,        \* what write_validated_excel_stream returned
    s3,                 \* keys stored in the bucket by this run
    events,             \* the run's feed, in publish order
    error,              \* str(e) of the exception being handled
    row_errors,         \* the errors lists of a direct validate_chunk call
    batch_log,          \* history: len(batch) of every batch entered so far
    sub,                \* a subscriber of the run's feed (notification_service)
    auth                \* one call of validate_bearer_token (auth/validate.py)

vars == << pc, CHUNK_SIZE, WORKERS, audit, content_type, records, rules,
           unique_cols, unique_mode, dup_index, chunks, batch_start, tasks, results, merge_pos,
           validated_records, processed, total_success, total_failure,
           excel_bytes, s3, events, error, row_errors, batch_log, sub, auth >>

total_records == Len(records)

\* The stream id "$": the last entry of the stream when the read is issued.
Dollar == -1

\* A consumer that has not called subscribe yet. history is what XRANGE
\* returned, pending what the last XREAD returned, both as stream positions;
\* last_id is "$" or the position of the last entry yielded by the live loop.
NewSubscriber ==
    [at |-> "idle", history |-> << >>, pending |-> << >>, last_id |-> Dollar,
     from |-> 0, received |-> << >>]

\* No bearer token is being validated.
NoAuth ==
    [at |-> "idle", user_provider |-> "azure", client_provider |-> "azure",
     token |-> "<none>", calls |-> << >>,
     result |-> [status |-> "none", provider |-> "", type |-> "", claims |-> ""]]

NoInt == -1
NewAudit ==
    [status |-> "pending", total_records |-> NoInt, processed_records |-> 0,
     success_count |-> NoInt, failure_count |-> NoInt, progress_percent |-> 0,
     error_message |-> "<null>", excel_s3_key |-> "<null>", json_s3_key |-> "<null>"]

Init ==
    /\ pc = "pending"
    /\ CHUNK_SIZE \in 1..MaxChunk
    /\ WORKERS \in 1..MaxWorkers
    /\ audit = NewAudit
    /\ content_type = "<unset>"
    /\ records = << >>
    /\ rules = << >>
    /\ unique_cols = << >>
    /\ unique_mode = "<unset>"
    /\ dup_index = << >>
    /\ chunks = << >>
    /\ batch_start = 0
    /\ tasks = << >>
    /\ results = << >>
    /\ merge_pos = 0
    /\ validated_records = << >>
    /\ processed = 0
    /\ total_success = 0
    /\ total_failure = 0
    /\ excel_bytes = "<unset>"
    /\ s3 = {}
    /\ events = << >>
    /\ error = "<none>"
    /\ row_errors = << >>
    /\ batch_log = << >>
    /\ sub = NewSubscriber
    /\ auth = NoAuth

(* ------------------------------------------------------------------ *)
(* run_excel_validation_pipeline, one action per step between awaits    *)
(* ------------------------------------------------------------------ *)
Min(a, b) == IF a < b THEN a ELSE b

\* round((processed / total) * 100, 2), in hundredths of a percent.
Percent(p, t) ==
    LET q == (p * 10000) \div t
        r == (p * 10000) % t
    IN IF 2 * r > t \/ (2 * r = t /\ q % 2 = 1) THEN q + 1 ELSE q

\* Mutant: the slice records[i:i+CHUNK_SIZE+1].
MakeChunksOverlap(recs, size) ==
    [k \in 1..((Len(recs) + size - 1) \div size) |->
        << (k - 1) * size,
           SubSeq(recs, (k - 1) * size + 1, Min(k * size + 1, Len(recs))) >>]

\* [(i, records[i:i+CHUNK_SIZE]) for i in range(0, total_records, CHUNK_SIZE)]
MakeChunks(recs, size) ==
    [k \in 1..((Len(recs) + size - 1) \div size) |->
        << (k - 1) * size,
           SubSeq(recs, (k - 1) * size + 1, Min(k * size, Len(recs))) >>]

\* Mutant: the slice chunks[batch_start : batch_start + WORKERS + 1].
BatchOfTooWide(chs, start, width) ==
    SubSeq(chs, start + 1, Min(start + width + 1, Len(chs)))

\* chunks[batch_start : batch_start + WORKERS]
BatchOf(chs, start, width) == SubSeq(chs, start + 1, Min(start + width, Len(chs)))
batch == BatchOf(chunks, batch_start, WORKERS)

\* sorted(results, key=lambda x: x[0]): a stable insertion sort.
RECURSIVE InsertByStart(_, _)
InsertByStart(sorted, x) ==
    IF sorted = << >> THEN << x >>
    ELSE IF x[1] < sorted[1][1] THEN << x >> \o sorted
    ELSE << sorted[1] >> \o InsertByStart(Tail(sorted), x)
RECURSIVE SortByStart(_)
SortByStart(rs) ==
    IF rs = << >> THEN << >>
    ELSE InsertByStart(SortByStart(SubSeq(rs, 1, Len(rs) - 1)), rs[Len(rs)])

\* The exception handler is entered with str(e).
Raise(msg) == /\ error' = msg
              /\ pc' = "except"

\* Mutant: the run goes on without the RUNNING update.
SetRunningSkipped ==
    /\ pc = "pending"
    /\ pc' = "read_s3"
    /\ UNCHANGED << CHUNK_SIZE, WORKERS, audit, content_type, records, rules,
                    unique_cols, unique_mode, dup_index, chunks, batch_start,
                    tasks, results, merge_pos, validated_records, processed,
                    total_success, total_failure, excel_bytes, s3, events,
                    error, row_errors, batch_log, sub, auth >>

\* update_audit_status(session, audit_id, AuditStatus.RUNNING)
SetRunning ==
    /\ pc = "pending"
    /\ audit' = [audit EXCEPT !.status = "running"]
    /\ pc' = "read_s3"
    /\ UNCHANGED << CHUNK_SIZE, WORKERS, content_type, records, rules,
                    unique_cols, unique_mode, dup_index, chunks, batch_start,
                    tasks, results, merge_pos, validated_records, processed,
                    total_success, total_failure, excel_bytes, s3, events,
                    error, row_errors,
                    batch_log, sub, auth >>

\* file_bytes, content_type = await read_file_from_s3(...)
ReadS3 ==
    /\ pc = "read_s3"
    /\ \E ct \in ContentTypes : content_type' = ct
    /\ pc' = "detect"
    /\ UNCHANGED << CHUNK_SIZE, WORKERS, audit, records, rules, unique_cols,
                    unique_mode, dup_index, chunks, batch_start, tasks,
                    results, merge_pos, validated_records, processed,
                    total_success, total_failure, excel_bytes, s3, events,
                    error, row_errors,
                    batch_log, sub, auth >>

\* Step 2 and records = list(records_iter)
ParseRecords ==
    /\ pc = "detect"
    /\ IsSpreadsheet(content_type) \/ IsCsv(content_type)
    /\ \E recs \in RecordSeqs(content_type) : records' = recs
    /\ pc' = "init_progress"
    /\ UNCHANGED << CHUNK_SIZE, WORKERS, audit, content_type, rules,
                    unique_cols, unique_mode, dup_index, chunks, batch_start,
                    tasks, results, merge_pos, validated_records, processed,
                    total_success, total_failure, excel_bytes, s3, events,
                    error, row_errors,
                    batch_log, sub, auth >>

UnsupportedType ==
    /\ pc = "detect"
    /\ ~(IsSpreadsheet(content_type) \/ IsCsv(content_type))
    /\ Raise("Unsupported S3 Content-Type: " \o content_type)
    /\ UNCHANGED << CHUNK_SIZE, WORKERS, audit, content_type, records, rules,
                    unique_cols, unique_mode, dup_index, chunks, batch_start,
                    tasks, results, merge_pos, validated_records, processed,
                    total_success, total_failure, excel_bytes, s3, events,
                    row_errors,
                    batch_log, sub, auth >>

\* Mutant: update_progress that persists the total but not the processed count.
update_progress_TotalOnly(a, p, t) == [a EXCEPT !.total_records = t]

\* audit_service.update_progress(session, audit_id, processed, total)
update_progress(a, p, t) ==
    [a EXCEPT !.processed_records = p, !.total_records = t,
              !.progress_percent = IF t # 0 THEN Percent(p, t) ELSE 0]

\* await update_progress(session, audit_id, 0, total_records)
InitProgress ==
    /\ pc = "init_progress"
    /\ audit' = update_progress(audit, 0, total_records)
    /\ pc' = "init_publish"
    /\ UNCHANGED << CHUNK_SIZE, WORKERS, content_type, records, rules,
                    unique_cols, unique_mode, dup_index, chunks, batch_start,
                    tasks, results, merge_pos, validated_records, processed,
                    total_success, total_failure, excel_bytes, s3, events,
                    error, row_errors,
                    batch_log, sub, auth >>

\* Mutant: the pipeline without the init event.
PublishInitOmitted ==
    /\ pc = "init_publish"
    /\ pc' = "get_rules"
    /\ UNCHANGED << CHUNK_SIZE, WORKERS, audit, content_type, records, rules,
                    unique_cols, unique_mode, dup_index, chunks, batch_start,
                    tasks, results, merge_pos, validated_records, processed,
                    total_success, total_failure, excel_bytes, s3, events,
                    error, row_errors, batch_log, sub, auth >>

\* await safe_publish({"type": "init", ...})
PublishInit ==
    /\ pc = "init_publish"
    /\ events' = Append(events, [type |-> "init", status |-> "RUNNING",
                                 total |-> total_records])
    /\ pc' = "get_rules"
    /\ UNCHANGED << CHUNK_SIZE, WORKERS, audit, content_type, records, rules,
                    unique_cols, unique_mode, dup_index, chunks, batch_start,
                    tasks, results, merge_pos, validated_records, processed,
                    total_success, total_failure, excel_bytes, s3, error,
                    row_errors,
                    batch_log, sub, auth >>

\* Mutant: the index built from the first chunk of the records only.
PrepareRunPartialIndex(cfg) ==
    LET prep == prep_rules_from_dict(cfg) IN
    /\ rules' = prep[1]
    /\ unique_cols' = prep[2]
    /\ unique_mode' = prep[3]
    /\ dup_index' = build_duplicate_index(
                        SubSeq(records, 1, Min(CHUNK_SIZE, Len(records))), prep[2])
    /\ chunks' = MakeChunks(records, CHUNK_SIZE)
    /\ validated_records' = << >>
    /\ processed' = 0
    /\ total_success' = 0
    /\ total_failure' = 0

\* Step 3 and the first lines of step 4, for the document the store returned.
PrepareRun(cfg) ==
    LET prep == prep_rules_from_dict(cfg) IN
    /\ rules' = prep[1]
    /\ unique_cols' = prep[2]
    /\ unique_mode' = prep[3]
    /\ dup_index' = build_duplicate_index(records, prep[2])
    /\ chunks' = MakeChunks(records, CHUNK_SIZE)
    /\ validated_records' = << >>
    /\ processed' = 0
    /\ total_success' = 0
    /\ total_failure' = 0

LoadRules ==
    /\ pc = "get_rules"
    /\ \E cfg \in StoredRuleDocs :
          /\ CompileError(cfg.columns) = "<none>"
          /\ PrepareRun(cfg)
    /\ batch_start' = 0
    /\ pc' = "batch"
    /\ UNCHANGED << CHUNK_SIZE, WORKERS, audit, content_type, records, tasks,
                    results, merge_pos, excel_bytes, s3, events, error,
                    row_errors,
                    batch_log, sub, auth >>

RulesNotFound ==
    /\ pc = "get_rules"
    /\ Raise("No rules found for rules_id=r1")
    /\ UNCHANGED << CHUNK_SIZE, WORKERS, audit, content_type, records, rules,
                    unique_cols, unique_mode, dup_index, chunks, batch_start,
                    tasks, results, merge_pos, validated_records, processed,
                    total_success, total_failure, excel_bytes, s3, events,
                    row_errors,
                    batch_log, sub, auth >>

\* rules_cfg was found, but re.compile raises inside prep_rules_from_dict.
RulesCompileFails ==
    /\ pc = "get_rules"
    /\ \E cfg \in StoredRuleDocs :
          /\ CompileError(cfg.columns) # "<none>"
          /\ Raise(CompileError(cfg.columns))
    /\ UNCHANGED << CHUNK_SIZE, WORKERS, audit, content_type, records, rules,
                    unique_cols, unique_mode, dup_index, chunks, batch_start,
                    tasks, results, merge_pos, validated_records, processed,
                    total_success, total_failure, excel_bytes, s3, events,
                    row_errors, batch_log, sub, auth >>

(* ------------------------------------------------------------------ *)
(* Step 4: the batch loop and the task group                            *)
(* ------------------------------------------------------------------ *)
\* Mutant: validate_chunk called with start_idx, not start_idx + 1.
_collect_results_ZeroBased(acc, start_idx, rows, rls, idx, ucols, umode) ==
    Append(acc, << start_idx, validate_chunk(rows, start_idx, rls, idx, ucols, umode) >>)

\* _collect_results: the list acc after the task appended its result.
_collect_results(acc, start_idx, rows, rls, idx, ucols, umode) ==
    Append(acc, << start_idx, validate_chunk(rows, start_idx + 1, rls, idx, ucols, umode) >>)

\* for batch_start in range(0, len(chunks), WORKERS): the task group is
\* entered and every chunk of the batch is handed to tg.start_soon.
BatchStart ==
    /\ pc = "batch"
    /\ batch_start < Len(chunks)
    /\ tasks' = [j \in 1..Len(batch) |-> "scheduled"]
    /\ results' = << >>
    /\ merge_pos' = 0
    /\ pc' = "tasks"
    /\ batch_log' = Append(batch_log, Len(batch))
    /\ UNCHANGED << CHUNK_SIZE, WORKERS, audit, content_type, records, rules,
                    unique_cols, unique_mode, dup_index, chunks, batch_start,
                    validated_records, processed, total_success,
                    total_failure, excel_bytes, s3, events, error, row_errors,
                    sub, auth >>

\* A task reaches anyio.to_thread.run_sync: its chunk is being validated.
StartChunk(j) ==
    /\ pc = "tasks"
    /\ j \in DOMAIN tasks
    /\ tasks[j] = "scheduled"
    /\ \A k \in DOMAIN tasks : tasks[k] # "failed"     \* the scope is not cancelled
    /\ tasks' = [tasks EXCEPT ![j] = "running"]
    /\ UNCHANGED << pc, CHUNK_SIZE, WORKERS, audit, content_type, records,
                    rules, unique_cols, unique_mode, dup_index, chunks,
                    batch_start, results, merge_pos, validated_records,
                    processed, total_success, total_failure, excel_bytes, s3,
                    events, error, row_errors,
                    batch_log, sub, auth >>

\* Mutant: the task also extends the run's record list and counter itself.
FinishChunkWritesTotals(j) ==
    /\ pc = "tasks"
    /\ j \in DOMAIN tasks
    /\ tasks[j] = "running"
    /\ tasks' = [tasks EXCEPT ![j] = "done"]
    /\ results' = _collect_results(results, batch[j][1], batch[j][2], rules,
                                   dup_index, unique_cols, unique_mode)
    /\ validated_records' = validated_records \o results'[Len(results')][2][1]
    /\ processed' = processed + Len(batch[j][2])
    /\ UNCHANGED << pc, CHUNK_SIZE, WORKERS, audit, content_type, records,
                    rules, unique_cols, unique_mode, dup_index, chunks,
                    batch_start, merge_pos, total_success, total_failure,
                    excel_bytes, s3, events, error, row_errors, batch_log,
                    sub, auth >>

\* The thread returned and the task appended (start_idx, result) to results.
FinishChunk(j) ==
    /\ pc = "tasks"
    /\ j \in DOMAIN tasks
    /\ tasks[j] = "running"
    /\ tasks' = [tasks EXCEPT ![j] = "done"]
    /\ results' = _collect_results(results, batch[j][1], batch[j][2], rules,
                                   dup_index, unique_cols, unique_mode)
    /\ UNCHANGED << pc, CHUNK_SIZE, WORKERS, audit, content_type, records,
                    rules, unique_cols, unique_mode, dup_index, chunks,
                    batch_start, merge_pos, validated_records, processed,
                    total_success, total_failure, excel_bytes, s3, events,
                    error, row_errors,
                    batch_log, sub, auth >>

\* Mutant: the merge loop without sorted(), in completion order.
MergeOrderUnsorted(rs) == rs

\* The order in which the merge loop visits the results of a batch.
MergeOrder(rs) == SortByStart(rs)

\* Mutant: processed = len(chunk_valid), the count of the last chunk only.
AccumulateLastChunk(count, chunk_valid) == Len(chunk_valid)

\* processed += len(chunk_valid)
Accumulate(count, chunk_valid) == count + Len(chunk_valid)

\* One iteration of the loop over sorted(results), after the task group has
\* exited: extend, count, persist the progress and publish it.
MergeChunk ==
    /\ pc = "tasks"
    /\ \A j \in DOMAIN tasks : tasks[j] = "done"
    /\ merge_pos < Len(results)
    /\ LET r == MergeOrder(results)[merge_pos + 1]
           chunk_valid == r[2][1]
           done == Accumulate(processed, chunk_valid)
       IN /\ validated_records' = validated_records \o chunk_valid
          /\ processed' = done
          /\ total_success' = total_success + r[2][2]
          /\ total_failure' = total_failure + r[2][3]
          /\ audit' = update_progress(audit, done, total_records)
          /\ events' = Append(events, [type |-> "progress", processed |-> done,
                                       percent |-> Percent(done, total_records)])
    /\ merge_pos' = merge_pos + 1
    /\ IF merge_pos + 1 = Len(results)
       THEN /\ pc' = "batch"
            /\ batch_start' = batch_start + WORKERS
       ELSE UNCHANGED << pc, batch_start >>
    /\ UNCHANGED << CHUNK_SIZE, WORKERS, content_type, records, rules,
                    unique_cols, unique_mode, dup_index, chunks, tasks,
                    results, excel_bytes, s3, error, row_errors,
                    batch_log, sub, auth >>

(* ------------------------------------------------------------------ *)
(* Steps 5 to 7 and the exception handler                               *)
(* ------------------------------------------------------------------ *)
quality == IF total_failure = 0 THEN "PASS" ELSE "FAIL"
excel_key == "validated/base_id_" \o quality \o ".xlsx"
json_key == "validated/base_id_" \o quality \o ".json"

\* excel_writer.write_validated_excel_stream: None for no records.
write_validated_excel_stream(vrecs) ==
    IF vrecs = << >> THEN "None" ELSE "BytesIO"

\* excel_bytes = await write_validated_excel_stream(validated_records)
WriteExcel ==
    /\ pc = "batch"
    /\ batch_start >= Len(chunks)
    /\ excel_bytes' = write_validated_excel_stream(validated_records)
    /\ pc' = "upload_excel"
    /\ UNCHANGED << CHUNK_SIZE, WORKERS, audit, content_type, records, rules,
                    unique_cols, unique_mode, dup_index, chunks, batch_start,
                    tasks, results, merge_pos, validated_records, processed,
                    total_success, total_failure, s3, events, error,
                    row_errors,
                    batch_log, sub, auth >>

\* await upload_bytes_to_s3(settings.S3_BUCKET, excel_key, excel_bytes.getvalue())
UploadExcel ==
    /\ pc = "upload_excel"
    /\ excel_bytes # "None"
    /\ s3' = s3 \cup {excel_key}
    /\ pc' = "upload_json"
    /\ UNCHANGED << CHUNK_SIZE, WORKERS, audit, content_type, records, rules,
                    unique_cols, unique_mode, dup_index, chunks, batch_start,
                    tasks, results, merge_pos, validated_records, processed,
                    total_success, total_failure, excel_bytes, events, error,
                    row_errors,
                    batch_log, sub, auth >>

\* excel_bytes.getvalue() on None
GetValueOfNone ==
    /\ pc = "upload_excel"
    /\ excel_bytes = "None"
    /\ Raise("'NoneType' object has no attribute 'getvalue'")
    /\ UNCHANGED << CHUNK_SIZE, WORKERS, audit, content_type, records, rules,
                    unique_cols, unique_mode, dup_index, chunks, batch_start,
                    tasks, results, merge_pos, validated_records, processed,
                    total_success, total_failure, excel_bytes, s3, events,
                    row_errors,
                    batch_log, sub, auth >>

\* json.dumps raises TypeError on a datetime or date value.
JsonSerializable(vrecs) ==
    \A i \in 1..Len(vrecs) : \A k \in DOMAIN vrecs[i] \ {"Valid", "Remarks"} :
        vrecs[i][k].py # "date"

\* Mutant: the JSON artifact is serialised but never uploaded.
UploadJsonSkipped ==
    /\ pc = "upload_json"
    /\ JsonSerializable(validated_records)
    /\ pc' = "sign"
    /\ UNCHANGED << CHUNK_SIZE, WORKERS, audit, content_type, records, rules,
                    unique_cols, unique_mode, dup_index, chunks, batch_start,
                    tasks, results, merge_pos, validated_records, processed,
                    total_success, total_failure, excel_bytes, s3, events,
                    error, row_errors, batch_log, sub, auth >>

\* json_bytes = json.dumps(validated_records, indent=2).encode(); upload
UploadJson ==
    /\ pc = "upload_json"
    /\ JsonSerializable(validated_records)
    /\ s3' = s3 \cup {json_key}
    /\ pc' = "sign"
    /\ UNCHANGED << CHUNK_SIZE, WORKERS, audit, content_type, records, rules,
                    unique_cols, unique_mode, dup_index, chunks, batch_start,
                    tasks, results, merge_pos, validated_records, processed,
                    total_success, total_failure, excel_bytes, events, error,
                    row_errors,
                    batch_log, sub, auth >>

JsonDumpsFails ==
    /\ pc = "upload_json"
    /\ ~JsonSerializable(validated_records)
    /\ Raise("Object of type date is not JSON serializable")
    /\ UNCHANGED << CHUNK_SIZE, WORKERS, audit, content_type, records, rules,
                    unique_cols, unique_mode, dup_index, chunks, batch_start,
                    tasks, results, merge_pos, validated_records, processed,
                    total_success, total_failure, excel_bytes, s3, events,
                    row_errors,
                    batch_log, sub, auth >>

\* Step 6: the two presigned URLs, then the completed event.
PublishCompleted ==
    /\ pc = "sign"
    /\ events' = Append(events,
            [type |-> "completed", status |-> "COMPLETED", percent |-> 10000,
             excel_url |-> "url:" \o excel_key, json_url |-> "url:" \o json_key,
             success_count |-> total_success, failure_count |-> total_failure])
    /\ pc' = "set_completed"
    /\ UNCHANGED << CHUNK_SIZE, WORKERS, audit, content_type, records, rules,
                    unique_cols, unique_mode, dup_index, chunks, batch_start,
                    tasks, results, merge_pos, validated_records, processed,
                    total_success, total_failure, excel_bytes, s3, error,
                    row_errors,
                    batch_log, sub, auth >>

\* Step 7: update_audit_status(..., AuditStatus.COMPLETED, ...)
SetCompleted ==
    /\ pc = "set_completed"
    /\ audit' = [audit EXCEPT !.status = "completed",
                              !.total_records = total_records,
                              !.success_count = total_success,
                              !.failure_count = total_failure,
                              !.progress_percent = 10000,
                              !.excel_s3_key = excel_key,
                              !.json_s3_key = json_key]
    /\ pc' = "done"
    /\ UNCHANGED << CHUNK_SIZE, WORKERS, content_type, records, rules,
                    unique_cols, unique_mode, dup_index, chunks, batch_start,
                    tasks, results, merge_pos, validated_records, processed,
                    total_success, total_failure, excel_bytes, s3, events,
                    error, row_errors,
                    batch_log, sub, auth >>

\* except Exception as e: update_audit_status(..., AuditStatus.FAILED, ...)
SetFailed ==
    /\ pc = "except"
    /\ audit' = [audit EXCEPT !.status = "failed", !.error_message = error]
    /\ pc' = "publish_error"
    /\ UNCHANGED << CHUNK_SIZE, WORKERS, content_type, records, rules,
                    unique_cols, unique_mode, dup_index, chunks, batch_start,
                    tasks, results, merge_pos, validated_records, processed,
                    total_success, total_failure, excel_bytes, s3, events,
                    error, row_errors,
                    batch_log, sub, auth >>

\* await safe_publish({"type": "error", ...}); raise
PublishError ==
    /\ pc = "publish_error"
    /\ events' = Append(events, [type |-> "error", status |-> "FAILED",
                                 message |-> error])
    /\ pc' = "raised"
    /\ UNCHANGED << CHUNK_SIZE, WORKERS, audit, content_type, records, rules,
                    unique_cols, unique_mode, dup_index, chunks, batch_start,
                    tasks, results, merge_pos, validated_records, processed,
                    total_success, total_failure, excel_bytes, s3, error,
                    row_errors,
                    batch_log, sub, auth >>

Next ==
    \/ SetRunning
    \/ ReadS3
    \/ ParseRecords
    \/ UnsupportedType
    \/ InitProgress
    \/ PublishInit
    \/ LoadRules
    \/ RulesNotFound
    \/ RulesCompileFails
    \/ BatchStart
    \/ \E j \in 1..MaxWorkers : StartChunk(j)
    \/ \E j \in 1..MaxWorkers : FinishChunk(j)
    \/ MergeChunk
    \/ WriteExcel
    \/ UploadExcel
    \/ GetValueOfNone
    \/ UploadJson
    \/ JsonDumpsFails
    \/ PublishCompleted
    \/ SetCompleted
    \/ SetFailed
    \/ PublishError

Spec == Init /\ [][Next]_vars

(* ------------------------------------------------------------------ *)
(* The same run with failing collaborators: every awaited call of the   *)
(* pipeline may raise instead of returning                              *)
(* ------------------------------------------------------------------ *)
AuditStoreError == "audit store unavailable"
BlobStoreError == "blob store unavailable"
RulesStoreError == "rules store unavailable"
ReaderError == "Could not determine delimiter"
ChunkError == "chunk validation failed"

\* The awaited call at position `at` raises: nothing but the handler runs next.
Fault(at, msg) ==
    /\ pc = at
    /\ Raise(msg)
    /\ UNCHANGED << CHUNK_SIZE, WORKERS, audit, content_type, records, rules,
                    unique_cols, unique_mode, dup_index, chunks, batch_start,
                    tasks, results, merge_pos, validated_records, processed,
                    total_success, total_failure, excel_bytes, s3, events,
                    row_errors, batch_log, sub, auth >>

SetRunningFails == Fault("pending", AuditStoreError)
ReadS3Fails == Fault("read_s3", BlobStoreError)
ReaderFails ==
    /\ IsSpreadsheet(content_type) \/ IsCsv(content_type)
    /\ Fault("detect", ReaderError)
InitProgressFails == Fault("init_progress", AuditStoreError)
GetRulesFails == Fault("get_rules", RulesStoreError)

\* validate_chunk, or the hand-over to the worker thread, raises in task j.
ChunkRaises(j) ==
    /\ pc = "tasks"
    /\ j \in DOMAIN tasks
    /\ tasks[j] = "running"
    /\ tasks' = [tasks EXCEPT ![j] = "failed"]
    /\ UNCHANGED << pc, CHUNK_SIZE, WORKERS, audit, content_type, records,
                    rules, unique_cols, unique_mode, dup_index, chunks,
                    batch_start, results, merge_pos, validated_records,
                    processed, total_success, total_failure, excel_bytes, s3,
                    events, error, row_errors, batch_log, sub, auth >>

FailedTasks == {j \in DOMAIN tasks : tasks[j] = "failed"}

\* str(e) of what the task group raises on exit for n failed tasks. A single
\* failure leaves the group as itself or wrapped in an exception group,
\* depending on the anyio release; several failures are always wrapped.
TaskGroupMessages(n) ==
    IF n = 1
    THEN {ChunkError, "unhandled errors in a TaskGroup (1 sub-exception)"}
    ELSE {"unhandled errors in a TaskGroup (" \o ToString(n) \o " sub-exceptions)",
          ToString(n) \o " exceptions were raised in the task group"}

\* The task group exits once no thread is running: tasks that had not reached
\* their thread are cancelled, and the failure leaves the async with block.
TaskGroupRaises ==
    /\ pc = "tasks"
    /\ FailedTasks # {}
    /\ \A j \in DOMAIN tasks : tasks[j] # "running"
    /\ \E msg \in TaskGroupMessages(Cardinality(FailedTasks)) : Raise(msg)
    /\ UNCHANGED << CHUNK_SIZE, WORKERS, audit, content_type, records, rules,
                    unique_cols, unique_mode, dup_index, chunks, batch_start,
                    tasks, results, merge_pos, validated_records, processed,
                    total_success, total_failure, excel_bytes, s3, events,
                    row_errors, batch_log, sub, auth >>

\* update_progress raises in a merge iteration: the in-memory accumulators
\* of that iteration are already updated, nothing is persisted or published.
MergeProgressFails ==
    /\ pc = "tasks"
    /\ \A j \in DOMAIN tasks : tasks[j] = "done"
    /\ merge_pos < Len(results)
    /\ LET r == MergeOrder(results)[merge_pos + 1]
           chunk_valid == r[2][1]
       IN /\ validated_records' = validated_records \o chunk_valid
          /\ processed' = Accumulate(processed, chunk_valid)
          /\ total_success' = total_success + r[2][2]
          /\ total_failure' = total_failure + r[2][3]
    /\ Raise(AuditStoreError)
    /\ UNCHANGED << CHUNK_SIZE, WORKERS, audit, content_type, records, rules,
                    unique_cols, unique_mode, dup_index, chunks, batch_start,
                    tasks, results, merge_pos, excel_bytes, s3, events,
                    row_errors, batch_log, sub, auth >>

UploadExcelFails ==
    /\ excel_bytes # "None"
    /\ Fault("upload_excel", BlobStoreError)
UploadJsonFails ==
    /\ JsonSerializable(validated_records)
    /\ Fault("upload_json", BlobStoreError)
SignFails == Fault("sign", BlobStoreError)
SetCompletedFails == Fault("set_completed", AuditStoreError)

\* update_audit_status raises inside the handler: the exception leaves the
\* handler before safe_publish and before the bare raise.
SetFailedFails ==
    /\ pc = "except"
    /\ pc' = "handler_raised"
    /\ UNCHANGED << CHUNK_SIZE, WORKERS, audit, content_type, records, rules,
                    unique_cols, unique_mode, dup_index, chunks, batch_start,
                    tasks, results, merge_pos, validated_records, processed,
                    total_success, total_failure, excel_bytes, s3, events,
                    error, row_errors, batch_log, sub, auth >>

\* publish raises inside safe_publish, which swallows it; then raise.
PublishErrorFails ==
    /\ pc = "publish_error"
    /\ pc' = "raised"
    /\ UNCHANGED << CHUNK_SIZE, WORKERS, audit, content_type, records, rules,
                    unique_cols, unique_mode, dup_index, chunks, batch_start,
                    tasks, results, merge_pos, validated_records, processed,
                    total_success, total_failure, excel_bytes, s3, events,
                    error, row_errors, batch_log, sub, auth >>

NextFaults ==
    \/ Next
    \/ SetRunningFails
    \/ ReadS3Fails
    \/ ReaderFails
    \/ InitProgressFails
    \/ GetRulesFails
    \/ \E j \in 1..MaxWorkers : ChunkRaises(j)
    \/ TaskGroupRaises
    \/ MergeProgressFails
    \/ UploadExcelFails
    \/ UploadJsonFails
    \/ SignFails
    \/ SetCompletedFails
    \/ SetFailedFails
    \/ PublishErrorFails

SpecFaults == Init /\ [][NextFaults]_vars

(* ------------------------------------------------------------------ *)
(* The run with a publisher that may fail: publish raising inside       *)
(* safe_publish, for each event on its own                              *)
(* ------------------------------------------------------------------ *)
\* Publishes fail in runs of at most this many rows.
MaxLossyRows == 2

PublisherError == "feed unavailable"

\* Mutant: safe_publish without its try block.
safe_publish_NoTry(raised) == raised

\* The exception that leaves safe_publish when publish raises `raised`:
\* none, it is caught and logged.
safe_publish(raised) == "<none>"

\* What follows a safe_publish call whose publish raised.
AfterPublishFails(next_pc) ==
    LET exc == safe_publish(PublisherError)
    IN IF exc = "<none>"
       THEN /\ pc' = next_pc
            /\ error' = error
       ELSE Raise(exc)

\* The init event is not published.
PublishInitFails ==
    /\ pc = "init_publish"
    /\ total_records <= MaxLossyRows
    /\ AfterPublishFails("get_rules")
    /\ UNCHANGED << CHUNK_SIZE, WORKERS, audit, content_type, records, rules,
                    unique_cols, unique_mode, dup_index, chunks, batch_start,
                    tasks, results, merge_pos, validated_records, processed,
                    total_success, total_failure, excel_bytes, s3, events,
                    row_errors, batch_log, sub, auth >>

\* One iteration of the merge loop whose progress event is not published.
MergeChunkPublishFails ==
    /\ pc = "tasks"
    /\ total_records <= MaxLossyRows
    /\ \A j \in DOMAIN tasks : tasks[j] = "done"
    /\ merge_pos < Len(results)
    /\ LET r == MergeOrder(results)[merge_pos + 1]
           chunk_valid == r[2][1]
           done == Accumulate(processed, chunk_valid)
       IN /\ validated_records' = validated_records \o chunk_valid
          /\ processed' = done
          /\ total_success' = total_success + r[2][2]
          /\ total_failure' = total_failure + r[2][3]
          /\ audit' = update_progress(audit, done, total_records)
    /\ merge_pos' = merge_pos + 1
    /\ IF merge_pos + 1 = Len(results)
       THEN /\ AfterPublishFails("batch")
            /\ batch_start' = IF pc' = "batch" THEN batch_start + WORKERS
                              ELSE batch_start
       ELSE /\ AfterPublishFails(pc)
            /\ batch_start' = batch_start
    /\ UNCHANGED << CHUNK_SIZE, WORKERS, content_type, records, rules,
                    unique_cols, unique_mode, dup_index, chunks, tasks,
                    results, excel_bytes, s3, events, row_errors,
                    batch_log, sub, auth >>

\* The completed event is not published.
PublishCompletedFails ==
    /\ pc = "sign"
    /\ total_records <= MaxLossyRows
    /\ AfterPublishFails("set_completed")
    /\ UNCHANGED << CHUNK_SIZE, WORKERS, audit, content_type, records, rules,
                    unique_cols, unique_mode, dup_index, chunks, batch_start,
                    tasks, results, merge_pos, validated_records, processed,
                    total_success, total_failure, excel_bytes, s3, events,
                    row_errors, batch_log, sub, auth >>

NextPublisher ==
    \/ Next
    \/ PublishInitFails
    \/ MergeChunkPublishFails
    \/ PublishCompletedFails
    \/ PublishErrorFails

SpecPublisher == Init /\ [][NextPublisher]_vars

(* ------------------------------------------------------------------ *)
(* The validator called directly: build_duplicate_index, then           *)
(* validate_chunk from ordinal 1, on a wider range of rows and rules    *)
(* ------------------------------------------------------------------ *)
EmailCells == {None, PyStr(""), PyStr("a@x.com")}
AgeCells == {None, PyStr(""), PyStr(" "), PyStr("30"), PyStr("bad"),
             PyInt("30"), PyDate("2024-01-31")}
WideRows == [email : EmailCells, age : AgeCells] \cup [email : EmailCells]
KeyRows == [email : EmailCells, age : {PyStr("30"), PyStr("bad")}]
           \cup [age : {PyStr("30")}]

FieldRules ==
    [required : BOOLEAN,
     type : {"int", "float", "decimal", "date", "str", "uuid"},
     regex : {"", "[0-9]+"}]
UniqueChoices == {<< >>, << "email" >>, << "email", "age" >>}
UniqueModes == {"ignore", "fail_all", "keep_first", "<absent>"}

\* One row under every field rule, and short row sets under every
\* uniqueness policy.
FieldCases ==
    { << << row >>,
         [columns |-> cols, unique_constraints |-> << "email" >>,
          unique_mode |-> "fail_all"] >> :
      row \in WideRows,
      cols \in { << <<"age", r>> >> : r \in FieldRules }
               \cup { << <<"email", EmailRule>>, <<"age", r>> >> : r \in FieldRules } }
KeyCases ==
    { << recs,
         [columns |-> << <<"age", AgeRule>> >>, unique_constraints |-> uc,
          unique_mode |-> um] >> :
      recs \in SeqsUpTo(KeyRows, MaxDirectRows),
      uc \in UniqueChoices, um \in UniqueModes }

InitDirect ==
    /\ pc = "direct"
    /\ CHUNK_SIZE = 1
    /\ WORKERS = 1
    /\ audit = NewAudit
    /\ content_type = "<unset>"
    /\ \E case \in FieldCases \cup KeyCases :
          /\ records = case[1]
          /\ rules = prep_rules_from_dict(case[2])[1]
          /\ unique_cols = prep_rules_from_dict(case[2])[2]
          /\ unique_mode = prep_rules_from_dict(case[2])[3]
    /\ dup_index = << >>
    /\ chunks = << >>
    /\ batch_start = 0
    /\ tasks = << >>
    /\ results = << >>
    /\ merge_pos = 0
    /\ validated_records = << >>
    /\ processed = 0
    /\ total_success = 0
    /\ total_failure = 0
    /\ excel_bytes = "<unset>"
    /\ s3 = {}
    /\ events = << >>
    /\ error = "<none>"
    /\ row_errors = << >>
    /\ batch_log = << >>
    /\ sub = NewSubscriber
    /\ auth = NoAuth

\* dup_index = build_duplicate_index(records, unique_cols)
DirectIndex ==
    /\ pc = "direct"
    /\ dup_index' = build_duplicate_index(records, unique_cols)
    /\ pc' = "direct_validate"
    /\ UNCHANGED << CHUNK_SIZE, WORKERS, audit, content_type, records, rules,
                    unique_cols, unique_mode, chunks, batch_start, tasks,
                    results, merge_pos, validated_records, processed,
                    total_success, total_failure, excel_bytes, s3, events,
                    error, row_errors,
                    batch_log, sub, auth >>

\* validate_chunk(records, 1, rules, dup_index, unique_cols, unique_mode)
\* The call returns, or the exception of the first row that raises leaves it.
DirectValidate ==
    /\ pc = "direct_validate"
    /\ LET raising == {i \in 1..Len(records) :
                          RowRaises(NormalizeRow(records[i]), rules) # "<none>"}
           out == validate_chunk(records, 1, rules, dup_index, unique_cols, unique_mode)
       IN IF raising = {}
          THEN /\ validated_records' = out[1]
               /\ total_success' = out[2]
               /\ total_failure' = out[3]
               /\ row_errors' = [i \in 1..Len(records) |->
                                   RowErrors(records[i], i, rules, dup_index,
                                             unique_cols, unique_mode)]
               /\ processed' = Len(records)
               /\ pc' = "direct_done"
               /\ error' = error
          ELSE /\ error' = RowRaises(NormalizeRow(records[
                               CHOOSE i \in raising : \A k \in raising : i <= k]),
                                     rules)
               /\ pc' = "direct_raised"
               /\ UNCHANGED << validated_records, total_success, total_failure,
                               row_errors, processed >>
    /\ UNCHANGED << CHUNK_SIZE, WORKERS, audit, content_type, records, rules,
                    unique_cols, unique_mode, dup_index, chunks, batch_start,
                    tasks, results, merge_pos, excel_bytes, s3, events,
                    batch_log, sub, auth >>

NextDirect == DirectIndex \/ DirectValidate

SpecDirect == InitDirect /\ [][NextDirect]_vars

(* ------------------------------------------------------------------ *)
(* The event feed: notification_service.publish against one consumer    *)
(* running notification_service.subscribe (the body of audit_ws)        *)
(* ------------------------------------------------------------------ *)
REDIS_STREAM_MAXLEN == 1000
XREAD_COUNT == 10

\* The k-th event of a run that publishes MaxEvents events.
FeedEvent(k) ==
    IF k = 1 THEN [type |-> "init", status |-> "RUNNING", total |-> MaxEvents - 2]
    ELSE IF k = MaxEvents
    THEN [type |-> "completed", status |-> "COMPLETED", percent |-> 10000]
    ELSE [type |-> "progress", processed |-> k - 1,
          percent |-> Percent(k - 1, MaxEvents - 2)]

\* RedisClient.stream_add: XADD, then XTRIM to the newest maxlen entries.
stream_add(stream, payload, maxlen) ==
    LET added == Append(stream, payload) IN
    IF Len(added) > maxlen
    THEN SubSeq(added, Len(added) - maxlen + 1, Len(added))
    ELSE added

InitFeed ==
    /\ pc = "feed"
    /\ CHUNK_SIZE = 1
    /\ WORKERS = 1
    /\ audit = NewAudit
    /\ content_type = "<unset>"
    /\ records = << >>
    /\ rules = << >>
    /\ unique_cols = << >>
    /\ unique_mode = "<unset>"
    /\ dup_index = << >>
    /\ chunks = << >>
    /\ batch_start = 0
    /\ tasks = << >>
    /\ results = << >>
    /\ merge_pos = 0
    /\ validated_records = << >>
    /\ processed = 0
    /\ total_success = 0
    /\ total_failure = 0
    /\ excel_bytes = "<unset>"
    /\ s3 = {}
    /\ events = << >>
    /\ error = "<none>"
    /\ row_errors = << >>
    /\ batch_log = << >>
    /\ sub = NewSubscriber
    /\ auth = NoAuth

\* What no step of the feed changes.
feedFixed == << pc, CHUNK_SIZE, WORKERS, audit, content_type, records, rules,
                unique_cols, unique_mode, dup_index, chunks, batch_start,
                tasks, results, merge_pos, validated_records, processed,
                total_success, total_failure, excel_bytes, s3, error,
                row_errors, batch_log, auth >>

\* publish(app, audit_id, payload), called by the run
FeedPublish ==
    /\ pc = "feed"
    /\ Len(events) < MaxEvents
    /\ events' = stream_add(events, FeedEvent(Len(events) + 1), REDIS_STREAM_MAXLEN)
    /\ UNCHANGED << feedFixed, sub, auth >>

\* history = await redis.client.xrange(key, "-", "+")
XRange ==
    /\ pc = "feed"
    /\ sub.at = "idle"
    /\ sub' = [sub EXCEPT !.at = "replay",
                          !.history = [i \in 1..Len(events) |-> i]]
    /\ UNCHANGED << feedFixed, events >>

\* for msg_id, fields in history: yield fields["data"]
ReplayYield ==
    /\ pc = "feed"
    /\ sub.at = "replay"
    /\ sub.history # << >>
    /\ sub' = [sub EXCEPT !.history = Tail(sub.history),
                          !.received = Append(sub.received, Head(sub.history))]
    /\ UNCHANGED << feedFixed, events >>

\* The position XREAD reads after: "$" is the last entry of the stream at the
\* time of the call.
StartId(last_seen, length) ==
    IF last_seen = Dollar THEN length ELSE last_seen

\* last_id = "$" after the replay, then redis.stream_read(key, last_id) is
\* sent: the server fixes the position the read starts after.
XReadCall ==
    /\ pc = "feed"
    /\ \/ /\ sub.at = "replay"
          /\ sub.history = << >>
          /\ sub' = [sub EXCEPT !.at = "blocked", !.last_id = Dollar,
                                !.from = StartId(Dollar, Len(events))]
       \/ /\ sub.at = "live"
          /\ sub.pending = << >>
          /\ sub' = [sub EXCEPT !.at = "blocked",
                                !.from = StartId(sub.last_id, Len(events))]
    /\ UNCHANGED << feedFixed, events >>

\* XREAD returns the entries after the start position, at most count of them.
XReadReturn ==
    /\ pc = "feed"
    /\ sub.at = "blocked"
    /\ Len(events) > sub.from
    /\ sub' = [sub EXCEPT !.at = "live",
                 !.pending = [i \in 1..Min(Len(events) - sub.from, XREAD_COUNT)
                                 |-> sub.from + i]]
    /\ UNCHANGED << feedFixed, events >>

\* The block time passes with no new entry: if not messages: continue
XReadTimeout ==
    /\ pc = "feed"
    /\ sub.at = "blocked"
    /\ Len(events) = sub.from
    /\ sub' = [sub EXCEPT !.at = "live"]
    /\ UNCHANGED << feedFixed, events >>

\* last_id = msg_id; yield fields["data"]
LiveYield ==
    /\ pc = "feed"
    /\ sub.at = "live"
    /\ sub.pending # << >>
    /\ sub' = [sub EXCEPT !.pending = Tail(sub.pending),
                          !.last_id = Head(sub.pending),
                          !.received = Append(sub.received, Head(sub.pending))]
    /\ UNCHANGED << feedFixed, events >>

NextFeed ==
    \/ FeedPublish
    \/ XRange
    \/ ReplayYield
    \/ XReadCall
    \/ XReadReturn
    \/ XReadTimeout
    \/ LiveYield

SpecFeed == InitFeed /\ [][NextFeed]_vars

(* ------------------------------------------------------------------ *)
(* Bearer tokens: auth/validate.py over auth/factory.py and             *)
(* auth/providers.py                                                    *)
(* ------------------------------------------------------------------ *)
\* Values of AUTH_USER_PROVIDER and AUTH_CLIENT_PROVIDER.
ProviderNames == {"azure", "Entra", "cognito", "ldap"}

\* Bearer tokens by what a verifier can establish about them: not a JWT at
\* all, a JWT no provider signed, a JWT that verifies against the Azure
\* tenant, a JWT that verifies against the Cognito pool.
TokenKinds == {"garbage", "unsigned jwt", "azure jwt", "cognito jwt"}

\* get_provider(name): the provider class instantiated, or the ValueError.
get_provider(name) ==
    LET n == Lower(name)
    IN IF n \in {"azure", "entra"} THEN "AzureProvider"
       ELSE IF n \in {"cognito", "aws_cognito"} THEN "CognitoProvider"
       ELSE "ValueError"

\* provider.validate_user_token(token): the claims, or the AuthError raised.
validate_user_token(provider, token) ==
    IF \/ provider = "AzureProvider" /\ token = "azure jwt"
       \/ provider = "CognitoProvider" /\ token = "cognito jwt"
    THEN "claims of " \o token
    ELSE "AuthError"

\* provider.validate_client_token(token). AzureProvider returns the payload
\* decoded with verify_signature False; CognitoProvider inherits the base
\* method, which returns the NotImplementedError class and raises nothing.
validate_client_token(provider, token) ==
    IF provider = "AzureProvider"
    THEN IF token = "garbage" THEN "AuthError" ELSE "claims of " \o token
    ELSE "NotImplementedError"

NoResult == [status |-> "none", provider |-> "", type |-> "", claims |-> ""]
Returned(provider, type, claims) ==
    [status |-> "returned", provider |-> provider, type |-> type, claims |-> claims]
Raised(exc) == [status |-> exc, provider |-> "", type |-> "", claims |-> ""]

InitAuth ==
    /\ pc = "auth"
    /\ CHUNK_SIZE = 1
    /\ WORKERS = 1
    /\ audit = NewAudit
    /\ content_type = "<unset>"
    /\ records = << >>
    /\ rules = << >>
    /\ unique_cols = << >>
    /\ unique_mode = "<unset>"
    /\ dup_index = << >>
    /\ chunks = << >>
    /\ batch_start = 0
    /\ tasks = << >>
    /\ results = << >>
    /\ merge_pos = 0
    /\ validated_records = << >>
    /\ processed = 0
    /\ total_success = 0
    /\ total_failure = 0
    /\ excel_bytes = "<unset>"
    /\ s3 = {}
    /\ events = << >>
    /\ error = "<none>"
    /\ row_errors = << >>
    /\ batch_log = << >>
    /\ sub = NewSubscriber
    /\ auth \in [at : {"azure_user"}, user_provider : ProviderNames,
                 client_provider : ProviderNames, token : TokenKinds,
                 calls : {<< >>}, result : {NoResult}]

\* What no step of validate_bearer_token changes.
authFixed == << pc, CHUNK_SIZE, WORKERS, audit, content_type, records, rules,
                unique_cols, unique_mode, dup_index, chunks, batch_start,
                tasks, results, merge_pos, validated_records, processed,
                total_success, total_failure, excel_bytes, s3, events, error,
                row_errors, batch_log, sub >>

\* One attempt of validate_bearer_token: the provider the factory gave, the
\* method called on it, the label the return statement hard-codes, and where
\* control goes when the method raises. in_try says whether the factory call
\* is inside the try block.
Attempt(at, configured, kind, label, in_try, otherwise) ==
    /\ auth.at = at
    /\ LET provider == get_provider(configured)
           claims == IF kind = "user"
                     THEN validate_user_token(provider, auth.token)
                     ELSE validate_client_token(provider, auth.token)
       IN IF provider = "ValueError"
          THEN auth' = IF in_try
                       THEN [auth EXCEPT !.at = otherwise]
                       ELSE [auth EXCEPT !.at = "raised",
                                         !.result = Raised("ValueError")]
          ELSE IF claims = "AuthError"
          THEN auth' = [auth EXCEPT !.at = otherwise,
                                    !.calls = Append(@, << provider, kind >>)]
          ELSE auth' = [auth EXCEPT !.at = "returned",
                                    !.calls = Append(@, << provider, kind >>),
                                    !.result = Returned(label, kind, claims)]
    /\ UNCHANGED authFixed

\* "1 Azure User"
TryAzureUser ==
    Attempt("azure_user", auth.user_provider, "user", "azure", FALSE, "azure_client")

\* "2 Azure Client"
TryAzureClient ==
    Attempt("azure_client", auth.client_provider, "client", "azure", FALSE,
            "cognito_user")

\* "3 Cognito User"
TryCognitoUser ==
    Attempt("cognito_user", auth.user_provider, "user", "cognito", TRUE,
            "cognito_client")

\* "4 Cognito Client"
TryCognitoClient ==
    Attempt("cognito_client", auth.client_provider, "client", "cognito", TRUE,
            "unauthorized")

\* raise HTTPException(status_code=401, ...)
Unauthorized ==
    /\ auth.at = "unauthorized"
    /\ auth' = [auth EXCEPT !.at = "raised", !.result = Raised("HTTP 401")]
    /\ UNCHANGED authFixed

NextAuth ==
    \/ TryAzureUser
    \/ TryAzureClient
    \/ TryCognitoUser
    \/ TryCognitoClient
    \/ Unauthorized

SpecAuth == InitAuth /\ [][NextAuth]_vars

(* ------------------------------------------------------------------ *)
(* Properties                                                           *)
(* ------------------------------------------------------------------ *)
\* The batch loop has ended: write_validated_excel_stream has been called.
LoopFinished == excel_bytes # "<unset>"

\* The rows whose uniqueness key equals that of row i, in the whole input.
Occurrences(i) ==
    {j \in 1..Len(records) :
        \A c \in 1..Len(unique_cols) :
            Get(records[j], unique_cols[c]) = Get(records[i], unique_cols[c])}
FirstOccurrence(i) == CHOOSE j \in Occurrences(i) : \A k \in Occurrences(i) : j <= k

\* The Remarks of row i with and without a duplicate violation.
FieldMessages(i) == RulesErrors(NormalizeRow(records[i]), rules)
RemarksWithDuplicate(i) ==
    Join(FieldMessages(i) \o << "Duplicate based on " \o Join(unique_cols) >>)
RemarksWithoutDuplicate(i) ==
    IF FieldMessages(i) = << >> THEN "Validated Successfully"
    ELSE Join(FieldMessages(i))

\* What validating input row i with its ordinal i against the index of the
\* whole input gives.
ExpectedRow(i) ==
    _validate_row(records[i], i, rules,
                  build_duplicate_index(records, unique_cols),
                  unique_cols, unique_mode)

\* C1: the validated sequence is, at every moment, the validation results
\* of input rows 1..k in input order, and once the batch loop has ended it
\* has exactly one element per input row: no order in which the chunks of
\* a batch finish reorders, drops or duplicates a row.
C1_OutputInInputOrder ==
    /\ Len(validated_records) <= Len(records)
    /\ \A i \in 1..Len(validated_records) : validated_records[i] = ExpectedRow(i)
    /\ LoopFinished => Len(validated_records) = Len(records)

\* C1 witness: a completed run whose two chunks finished in reverse order
\* and hold different rows.
C1_Witness ==
    /\ pc = "done"
    /\ Len(results) = 2
    /\ results[1][1] > results[2][1]
    /\ Len(records) = 4
    /\ records[1] # records[3]

\* C2: after every merge total_success + total_failure is the cumulative
\* processed count, which is the number of validated rows; a completed
\* audit record has success_count + failure_count = total_records, the
\* number of input rows.
C2_CountsAddUp ==
    /\ total_success + total_failure = processed
    /\ processed = Len(validated_records)
    /\ audit.status = "completed" =>
          /\ audit.success_count + audit.failure_count = audit.total_records
          /\ audit.total_records = Len(records)

\* C2 witness: a completed run with both successes and failures.
C2_Witness ==
    /\ audit.status = "completed"
    /\ audit.success_count > 0
    /\ audit.failure_count > 0
    /\ Len(chunks) > 1

\* C3: under keep_first with a non-empty key, of the rows sharing a key
\* that occurs more than once exactly the one with the smallest ordinal
\* carries no duplicate violation, wherever the occurrences fall.
C3_KeepFirstExemptsFirst ==
    (unique_mode = "keep_first" /\ unique_cols # << >>) =>
        \A i \in 1..Len(validated_records) :
            Cardinality(Occurrences(i)) > 1 =>
                IF i = FirstOccurrence(i)
                THEN validated_records[i].Remarks = RemarksWithoutDuplicate(i)
                ELSE /\ validated_records[i].Remarks = RemarksWithDuplicate(i)
                     /\ validated_records[i].Valid = "Fail"

\* C3 witness: a completed keep_first run in which the chunk holding a
\* later occurrence of a key was validated before the chunk holding the
\* first occurrence.
C3_Witness ==
    /\ pc = "done"
    /\ unique_mode = "keep_first"
    /\ unique_cols # << >>
    /\ Len(results) = 2
    /\ results[1][1] > results[2][1]
    /\ Len(records) = 4
    /\ 3 \in Occurrences(1)

\* C4: under fail_all with a non-empty key, every row whose key occurs
\* more than once carries the duplicate violation and is Valid = Fail,
\* and no row whose key occurs once carries it.
C4_FailAllMarksAll ==
    (unique_mode = "fail_all" /\ unique_cols # << >>) =>
        \A i \in 1..Len(validated_records) :
            IF Cardinality(Occurrences(i)) > 1
            THEN /\ validated_records[i].Remarks = RemarksWithDuplicate(i)
                 /\ validated_records[i].Valid = "Fail"
            ELSE validated_records[i].Remarks = RemarksWithoutDuplicate(i)

\* C4 witness: a completed fail_all run with a key occurring three times
\* and a key occurring once.
C4_Witness ==
    /\ pc = "done"
    /\ unique_mode = "fail_all"
    /\ unique_cols # << >>
    /\ \E i, j \in 1..Len(records) :
          /\ Cardinality(Occurrences(i)) = 3
          /\ i = FirstOccurrence(i)
          /\ Cardinality(Occurrences(j)) = 1

\* C5: with empty unique_constraints the index built is empty and no row
\* has a duplicate violation, whatever the unique mode and the rows.
C5_EmptyConstraintsNoDuplicates ==
    unique_cols = << >> =>
        /\ dup_index = << >>
        /\ \A i \in 1..Len(validated_records) :
              /\ validated_records[i].Remarks = RemarksWithoutDuplicate(i)
              /\ \A k \in 1..Len(row_errors[i]) :
                    row_errors[i][k] # "Duplicate based on " \o Join(unique_cols)

\* C5 witness: two identical rows validated under keep_first with an
\* empty key.
C5_Witness ==
    /\ pc = "direct_done"
    /\ unique_cols = << >>
    /\ unique_mode = "keep_first"
    /\ Len(records) = 2
    /\ records[1] = records[2]

\* The violations of row i that are about field f with rule r.
MessagesOf(f, r) ==
    {f \o " is required", f \o " invalid " \o r.type, f \o " does not match pattern"}
ViolationsOf(i, f, r) ==
    SelectSeq(row_errors[i], LAMBDA m : m \in MessagesOf(f, r))

\* C6: per row and rule field at most one violation is recorded; a
\* required field that is absent or blank gives only "is required", and a
\* value whose coercion fails gives only "invalid <type>".
C6_OneViolationPerField ==
    \A i \in 1..Len(row_errors) : \A n \in 1..Len(rules) :
        LET f == rules[n][1]
            r == rules[n][2]
            value == Get(records[i], f)
            blank == value = None \/ Strip(value.s) = ""
        IN /\ Len(ViolationsOf(i, f, r)) <= 1
           /\ (r.required /\ blank) =>
                 ViolationsOf(i, f, r) = << f \o " is required" >>
           /\ (~(r.required /\ blank) /\ value # None /\ value # PyStr("")
               /\ CoercionFails(r.type, value)) =>
                 ViolationsOf(i, f, r) = << f \o " invalid " \o r.type >>

\* C6 witness: a required int field with a pattern holds a blank, and
\* another row holds a text that is no int and does not match the pattern.
C6_Witness ==
    /\ pc = "direct_done"
    /\ Len(records) = 1
    /\ \E n \in 1..Len(rules) :
          /\ rules[n][1] = "age"
          /\ rules[n][2].required
          /\ rules[n][2].type = "int"
          /\ rules[n][2]._regex_compiled = "[0-9]+"
    /\ Get(records[1], "age") \in {PyStr(" "), PyStr("bad")}
    /\ Len(row_errors[1]) >= 1

\* C7: a run over zero rows has the writer return no artifact and ends
\* completed with total_records = 0, success_count = 0, failure_count = 0.
C7_EmptyRunCompletes ==
    (pc \in {"done", "raised"} /\ excel_bytes = "None") =>
        /\ audit.status = "completed"
        /\ audit.total_records = 0
        /\ audit.success_count = 0
        /\ audit.failure_count = 0

\* ceil(a / b)
CeilDiv(a, b) == (a + b - 1) \div b

InFlight == {j \in DOMAIN tasks : tasks[j] = "running"}
Started == {j \in DOMAIN tasks : tasks[j] # "scheduled"}

\* C9: at most W chunk validations are in flight, and while a chunk of a
\* batch has started, every chunk before that batch has finished and been
\* merged: the rows merged so far are exactly the rows before the batch.
C9_BatchesAreSequential ==
    /\ Cardinality(InFlight) <= WORKERS
    /\ (pc = "tasks" /\ Started # {}) =>
          /\ Len(tasks) <= WORKERS
          /\ merge_pos = 0 => Len(validated_records) = batch[1][1]
          /\ \A m \in 1..Len(results) :
                \E j \in Started : results[m][1] = batch[j][1]

\* C9 witness: in a later batch of a run of width 2 both chunks are in
\* flight at once.
C9_Witness ==
    /\ pc = "tasks"
    /\ batch_start > 0
    /\ WORKERS = 2
    /\ Cardinality(InFlight) = 2

\* The index of the complete input: every key of the input with its number
\* of occurrences and the ordinal of its first one, and no other key.
IndexOfWholeInput ==
    IF unique_cols = << >> THEN dup_index = << >>
    ELSE /\ DOMAIN dup_index = {KeyOf(records[i], unique_cols) : i \in 1..Len(records)}
         /\ \A i \in 1..Len(records) :
               dup_index[KeyOf(records[i], unique_cols)]
                   = << Cardinality(Occurrences(i)), FirstOccurrence(i) >>

\* Some row validation of the run has begun.
ValidationBegun ==
    \/ pc = "tasks" /\ Started # {}
    \/ Len(batch_log) > 0 /\ pc # "tasks"

\* C10: from the first row validation on, the index the validators read
\* is the index of the complete input, and no step changes the index,
\* the rules or the uniqueness policy.
C10_IndexBuiltOnceReadOnly ==
    /\ [](ValidationBegun => IndexOfWholeInput)
    /\ [][ValidationBegun =>
            /\ dup_index' = dup_index
            /\ rules' = rules
            /\ unique_cols' = unique_cols
            /\ unique_mode' = unique_mode]_vars

\* C10 witness: a chunk of a later batch is being validated while the
\* index holds a key that occurs both in an earlier and in a later chunk.
C10_Witness ==
    /\ pc = "tasks"
    /\ batch_start > 0
    /\ InFlight # {}
    /\ unique_cols # << >>
    /\ \E i \in 1..Len(records) :
          /\ dup_index[KeyOf(records[i], unique_cols)][1] > 1
          /\ i > Len(validated_records)
          /\ FirstOccurrence(i) = 1

(* ------------------------------------------------------------------ *)
(* Progress reporting                                                   *)
(* ------------------------------------------------------------------ *)
EventsOfType(t) == SelectSeq(events, LAMBDA e : e.type = t)
ProgressEvents == EventsOfType("progress")

\* The batch loop has run to its end.
AllBatchesMerged ==
    \/ LoopFinished
    \/ (pc = "batch" /\ batch_start >= Len(chunks))

\* C11: within a run the processed values of successive progress events
\* strictly increase and never exceed total_records, and once every row of a
\* non-empty input has been validated the last progress event reports
\* processed = total_records.
C11_ProgressStrictlyIncreasing ==
    LET pe == ProgressEvents IN
    /\ \A i \in 1..Len(pe) :
          /\ pe[i].processed <= total_records
          /\ pe[i].processed > (IF i = 1 THEN 0 ELSE pe[i - 1].processed)
    /\ (AllBatchesMerged /\ total_records > 0) =>
          /\ pe # << >>
          /\ pe[Len(pe)].processed = total_records

C11_Witness ==
    /\ LoopFinished
    /\ total_records >= 3
    /\ Len(ProgressEvents) >= 3
    /\ WORKERS = 2

\* Chunks whose merge iteration has run, in a run without collaborator failures.
MergedChunks ==
    IF pc = "tasks" THEN batch_start + merge_pos ELSE Min(batch_start, Len(chunks))

\* C12 as stated: one progress event per batch, so after the loop the feed
\* holds as many progress events as batches were run.
C12_OneProgressEventPerBatch ==
    AllBatchesMerged => Len(ProgressEvents) = Len(batch_log)

\* C12, amended: progress is published and persisted once per merged chunk,
\* after the batch of that chunk has completed. The i-th progress event
\* carries the row count of the first i chunks, the audit record holds the
\* processed count of the last event, and no event of a batch is published
\* while a task of that batch has not finished.
C12_OneProgressEventPerChunk ==
    LET pe == ProgressEvents IN
    /\ Len(pe) = MergedChunks
    /\ \A i \in 1..Len(pe) :
          pe[i].processed = Min(i * CHUNK_SIZE, total_records)
    /\ audit.processed_records =
          (IF pe = << >> THEN 0 ELSE pe[Len(pe)].processed)
    /\ (pc = "tasks" /\ \E j \in DOMAIN tasks : tasks[j] # "done") =>
          Len(pe) = batch_start
    /\ AllBatchesMerged => Len(pe) = Len(chunks)

C12_Witness ==
    /\ AllBatchesMerged
    /\ Len(batch_log) = 2
    /\ Len(ProgressEvents) = 3
    /\ audit.processed_records = 3

(* ------------------------------------------------------------------ *)
(* Failure handling                                                     *)
(* ------------------------------------------------------------------ *)
\* The handler has run to its end, or was left by an exception of its own.
Reraised == pc \in {"raised", "handler_raised"}

\* C13 as stated: once the error of a failed chunk has been re-raised, no
\* later batch was started, nothing is stored, no completed event is in the
\* feed, and the audit record is failed with the chunk's own message.
C13_ChunkErrorAbortsRun ==
    (FailedTasks # {} /\ pc = "raised") =>
        /\ Len(batch_log) = (batch_start \div WORKERS) + 1
        /\ s3 = {}
        /\ EventsOfType("completed") = << >>
        /\ audit.status = "failed"
        /\ audit.error_message = ChunkError

\* C14 as stated: whenever an exception has left the pipeline, the audit
\* record is failed with the causing message and the handler got as far as
\* publishing the error event; no run ends with its status still running.
C14_FailureAlwaysRecorded ==
    Reraised =>
        /\ audit.status = "failed"
        /\ audit.error_message = error
        /\ pc = "raised"

\* The run is failing because the rule set is absent or does not compile.
RulesFailure ==
    /\ pc \in {"except", "publish_error", "raised"}
    /\ error \in {"No rules found for rules_id=r1",
                  "unterminated character set at position 0"}

\* C15 as stated: a rules failure happens before the input is fetched: no
\* content kind is known, no record parsed, no init event published and no
\* progress persisted.
C15_RulesFailureBeforeInput ==
    RulesFailure =>
        /\ content_type = "<unset>"
        /\ records = << >>
        /\ EventsOfType("init") = << >>
        /\ audit.total_records = NoInt

\* C15, amended: a rules failure happens after the input was fetched and
\* parsed, the initial progress (0 of N) persisted and the init event
\* published, and before the index is built or any row validated: nothing is
\* chunked, validated, reported as progress or stored.
C15_RulesFailureBeforeValidation ==
    RulesFailure =>
        /\ IsSpreadsheet(content_type) \/ IsCsv(content_type)
        /\ audit.total_records = total_records
        /\ audit.processed_records = 0
        /\ Len(EventsOfType("init")) = 1
        /\ events[1].total = total_records
        /\ rules = << >> /\ dup_index = << >> /\ chunks = << >>
        /\ batch_log = << >> /\ validated_records = << >>
        /\ ProgressEvents = << >>
        /\ s3 = {}

C15_Witness ==
    /\ RulesFailure
    /\ pc = "raised"
    /\ error = "unterminated character set at position 0"
    /\ total_records = 2
    /\ audit.status = "failed"

\* The blob store returned a kind that is neither spreadsheet nor text.
UnsupportedKind ==
    /\ pc \notin {"pending", "read_s3"}
    /\ content_type \in ContentTypes \ {ExcelType, CsvType}

\* C16: for an unsupported content kind the only step after detection is the
\* failure: no row is parsed or validated, no init or progress event is
\* published, nothing is persisted as progress or stored, and the handler
\* sets the audit status to failed with the Unsupported message.
C16_UnsupportedKindFailsAtOnce ==
    UnsupportedKind =>
        /\ pc \in {"detect", "except", "publish_error", "raised"}
        /\ (pc = "detect" => ~ENABLED ParseRecords /\ ENABLED UnsupportedType)
        /\ records = << >> /\ validated_records = << >> /\ batch_log = << >>
        /\ EventsOfType("init") = << >> /\ ProgressEvents = << >>
        /\ EventsOfType("completed") = << >>
        /\ audit.total_records = NoInt /\ audit.processed_records = 0
        /\ s3 = {}
        /\ (pc # "detect" =>
              error = "Unsupported S3 Content-Type: " \o content_type)
        /\ (pc \in {"publish_error", "raised"} =>
              /\ audit.status = "failed"
              /\ audit.error_message = error)

C16_Witness ==
    /\ UnsupportedKind
    /\ pc = "raised"
    /\ content_type = "application/pdf"
    /\ audit.status = "failed"
    /\ Len(events) = 1

(* ------------------------------------------------------------------ *)
(* The row validator and exceptions                                     *)
(* ------------------------------------------------------------------ *)
\* Field f of row i reaches the try block and its coercion raises.
CoercionRaisedAt(i, f, r) ==
    LET value == Get(NormalizeRow(records[i]), f) IN
    /\ ~(r.required /\ (value = None \/ Strip(value.s) = ""))
    /\ value # None /\ value # PyStr("")
    /\ ExceptionOf(r.type, value) # "<none>"

C18_FeedWithoutGap ==
    \A i \in 1..Len(sub.received) : sub.received[i] = i

C20_FailedRunLeavesNothing ==
    /\ audit.status = "failed" =>
          /\ s3 = {}
          /\ EventsOfType("completed") = << >>
    /\ ~(EventsOfType("completed") # << >> /\ EventsOfType("error") # << >>)

(* ------------------------------------------------------------------ *)
(* Result writer (excel_writer.py): the conditional formats             *)
(* ------------------------------------------------------------------ *)
UpperLetters == "ABCDEFGHIJKLMNOPQRSTUVWXYZ"
LowerLetters == "abcdefghijklmnopqrstuvwxyz"

\* LOWER(text), character by character.
RECURSIVE LowerText(_)
LowerText(t) ==
    IF t = "" THEN ""
    ELSE LET c == SubSeq(t, 1, 1)
             hit == {i \in 1..Len(UpperLetters) : SubSeq(UpperLetters, i, i) = c}
         IN (IF hit = {} THEN c
             ELSE LET i == CHOOSE i \in hit : TRUE IN SubSeq(LowerLetters, i, i))
            \o LowerText(SubSeq(t, 2, Len(t)))

\* SEARCH(word, text) finds word: it returns a position, not an error.
SearchFinds(word, t) ==
    \E i \in 1..(Len(t) - Len(word) + 1) : SubSeq(t, i, i + Len(word) - 1) = word

\* =$V2="Success"
GreenRule(row) == row.Valid = "Success"

\* Mutant: the yellow rule as =$V2="Fail" alone.
YellowRuleFailOnly(row) == row.Valid = "Fail"

\* =AND($V2="Fail", ISERROR(SEARCH("duplicate", LOWER($R2))))
YellowRule(row) ==
    row.Valid = "Fail" /\ ~SearchFinds("duplicate", LowerText(row.Remarks))

\* =SEARCH("duplicate", LOWER($R2))
RedRule(row) == SearchFinds("duplicate", LowerText(row.Remarks))

\* The formats whose criteria hold for a row of the data sheet.
ClassesOf(row) ==
    {c \in {"success", "soft-fail", "duplicate-fail"} :
        \/ (c = "success" /\ GreenRule(row))
        \/ (c = "soft-fail" /\ YellowRule(row))
        \/ (c = "duplicate-fail" /\ RedRule(row))}

\* C21: every row returned by the validator matches exactly one of the three
\* formats: success when Valid = Success, duplicate-fail when its Remarks
\* contain "duplicate" in any case, soft-fail when Valid = Fail and they do
\* not; and a row is in duplicate-fail exactly when the duplicate violation
\* is among its violations.
C21_ExactlyOneClass ==
    pc = "direct_done" =>
        \A i \in 1..Len(validated_records) :
            LET row == validated_records[i] IN
            /\ Cardinality(ClassesOf(row)) = 1
            /\ row.Valid = "Success" <=> ClassesOf(row) = {"success"}
            /\ ClassesOf(row) = {"duplicate-fail"} <=>
                  \E m \in 1..Len(row_errors[i]) :
                      row_errors[i][m] = DuplicateMessage(unique_cols)
            /\ ClassesOf(row) = {"soft-fail"} <=>
                  /\ row.Valid = "Fail"
                  /\ \A m \in 1..Len(row_errors[i]) :
                        row_errors[i][m] # DuplicateMessage(unique_cols)

\* Two rows with the same key under fail_all, the second also failing its
\* age rule: both are duplicate-fail and neither is soft-fail.
C21_Witness ==
    /\ pc = "direct_done"
    /\ Len(validated_records) = 2
    /\ ClassesOf(validated_records[1]) = {"duplicate-fail"}
    /\ ClassesOf(validated_records[2]) = {"duplicate-fail"}
    /\ Len(row_errors[2]) = 2

(* ------------------------------------------------------------------ *)
(* Who writes the accumulators                                          *)
(* ------------------------------------------------------------------ *)
totals == << validated_records, processed, total_success, total_failure >>

\* The task group of the current batch has not exited yet.
BatchInFlight == pc = "tasks" /\ \E j \in DOMAIN tasks : tasks[j] # "done"

\* C22 as stated: while a batch is in flight neither the per-batch result
\* list nor the record list nor a counter is written.
C22_NoWriteWhileInFlight ==
    [][BatchInFlight => (results' = results /\ totals' = totals)]_vars

\* C22, amended: the record list and the counters are written only by the
\* coordinating task, in the merge loop after the task group has exited. The
\* per-batch result list is emptied by the coordinating task when a batch
\* begins and is otherwise written by the worker tasks themselves: each
\* appends its one result, on the event loop, when its thread has returned,
\* while other chunks of the batch may still be running. The worker thread
\* writes nothing.
C22_WorkersAppendOnlyResults ==
    /\ [][totals' # totals => (pc = "tasks" /\ ~BatchInFlight)]_vars
    /\ [][results' # results =>
            \/ pc = "batch"
            \/ /\ BatchInFlight
               /\ Len(results') = Len(results) + 1
               /\ SubSeq(results', 1, Len(results)) = results
               /\ \E j \in DOMAIN tasks :
                     /\ tasks[j] = "running"
                     /\ tasks' = [tasks EXCEPT ![j] = "done"]
                     /\ results'[Len(results')][1] = batch[j][1]]_vars
    /\ [][(\E j \in DOMAIN tasks : tasks[j] = "scheduled" /\ tasks'[j] = "running")
            => (results' = results /\ totals' = totals)]_vars

\* A task has appended its result while another chunk of the batch runs.
C22_Witness ==
    /\ pc = "tasks"
    /\ Len(results) = 1
    /\ \E j \in DOMAIN tasks : tasks[j] = "running"
    /\ batch_start > 0
    /\ validated_records # << >>

(* ------------------------------------------------------------------ *)
(* The order of the rule set's fields                                   *)
(* ------------------------------------------------------------------ *)
\* The rule set with its fields iterated in every possible order.
Reorderings(rs) ==
    { [k \in 1..Len(rs) |-> rs[p[k]]] :
        p \in {q \in [1..Len(rs) -> 1..Len(rs)] :
                  \A a, b \in 1..Len(rs) : q[a] = q[b] => a = b} }

\* Row i validated under the rule set rs instead of rules.
ValidatedUnder(i, rs) ==
    _validate_row(records[i], i, rs, dup_index, unique_cols, unique_mode)
ErrorsUnder(i, rs) ==
    RowErrors(records[i], i, rs, dup_index, unique_cols, unique_mode)
SetOf(msgs) == {msgs[m] : m \in 1..Len(msgs)}

\* C23 as stated: Valid and the Remarks text of every row are the same under
\* every order of the rule set's fields.
C23_FieldOrderIrrelevant ==
    pc = "direct_done" =>
        \A i \in 1..Len(records) : \A rs \in Reorderings(rules) :
            /\ ValidatedUnder(i, rs).Valid = validated_records[i].Valid
            /\ ValidatedUnder(i, rs).Remarks = validated_records[i].Remarks

\* C23, amended: under every order of the rule set's fields a row gets the
\* same Valid value and the same violations, each once; Remarks lists the
\* field violations in the order the fields are iterated, followed by the
\* duplicate violation.
C23_FieldOrderOnlyOrdersRemarks ==
    pc = "direct_done" =>
        \A i \in 1..Len(records) : \A rs \in Reorderings(rules) :
            /\ ValidatedUnder(i, rs).Valid = validated_records[i].Valid
            /\ SetOf(ErrorsUnder(i, rs)) = SetOf(row_errors[i])
            /\ Len(ErrorsUnder(i, rs)) = Len(row_errors[i])
            /\ ValidatedUnder(i, rs).Remarks =
                  (IF ErrorsUnder(i, rs) = << >> THEN "Validated Successfully"
                   ELSE Join(RulesErrors(NormalizeRow(records[i]), rs)
                             \o DuplicateErrors(NormalizeRow(records[i]), i,
                                    dup_index, unique_cols, unique_mode)))

\* A row violating both of two field rules: its Remarks differ between the
\* two orders of the fields.
C23_Witness ==
    /\ pc = "direct_done"
    /\ Len(rules) = 2
    /\ \E i \in 1..Len(records) : \E rs \in Reorderings(rules) :
          /\ Len(RulesErrors(NormalizeRow(records[i]), rules)) = 2
          /\ ValidatedUnder(i, rs).Remarks # validated_records[i].Remarks

(* ------------------------------------------------------------------ *)
(* The duplicate index                                                  *)
(* ------------------------------------------------------------------ *)
\* The key of row i: the value of each key field, null where the row has no
\* such field.
NullKey(i) ==
    [c \in 1..Len(unique_cols) |->
        IF unique_cols[c] \in DOMAIN records[i] THEN records[i][unique_cols[c]]
        ELSE None]
RowsWithKey(k) == {i \in 1..Len(records) : NullKey(i) = k}
KeyFieldAbsent(i, c) ==
    unique_cols[c] \notin DOMAIN records[i] \/ records[i][unique_cols[c]] = None

\* C24: for a non-empty key the index holds exactly the keys that occur in
\* the input, each with the number of its rows and the smallest ordinal among
\* them; a row whose key field is absent and a row whose key field is the
\* empty string have different keys, and two rows agreeing on every key
\* field, absent ones included, share one entry.
C24_IndexCountsAndFirstOrdinals ==
    (pc \in {"direct_validate", "direct_done"} /\ unique_cols # << >>) =>
        /\ DOMAIN dup_index = {NullKey(i) : i \in 1..Len(records)}
        /\ \A k \in DOMAIN dup_index :
              /\ dup_index[k][1] = Cardinality(RowsWithKey(k))
              /\ dup_index[k][2] \in RowsWithKey(k)
              /\ \A i \in RowsWithKey(k) : dup_index[k][2] <= i
        /\ \A i, j \in 1..Len(records) : \A c \in 1..Len(unique_cols) :
              /\ (KeyFieldAbsent(i, c)
                  /\ ~KeyFieldAbsent(j, c)
                  /\ records[j][unique_cols[c]] = PyStr(""))
                 => NullKey(i) # NullKey(j)
              /\ (i # j
                  /\ \A d \in 1..Len(unique_cols) :
                        \/ (KeyFieldAbsent(i, d) /\ KeyFieldAbsent(j, d))
                        \/ (~KeyFieldAbsent(i, d) /\ ~KeyFieldAbsent(j, d)
                            /\ records[i][unique_cols[d]] = records[j][unique_cols[d]]))
                 => /\ NullKey(i) = NullKey(j)
                    /\ dup_index[NullKey(i)][1] >= 2

\* A row without the key field and a row whose key field is empty.
C24_Witness ==
    /\ pc = "direct_done"
    /\ unique_cols = << "email" >>
    /\ Len(records) = 2
    /\ "email" \notin DOMAIN records[1]
    /\ "email" \in DOMAIN records[2]
    /\ records[2].email = PyStr("")
    /\ Cardinality(DOMAIN dup_index) = 2

(* ------------------------------------------------------------------ *)
(* Lookups in the duplicate index during a run                          *)
(* ------------------------------------------------------------------ *)
\* The ordinal validate_chunk uses for the j-th row of chunk k: it starts at
\* start_idx + 1 and is incremented after every row.
OrdinalPassed(k, j) == (chunks[k][1] + 1) + (j - 1)

\* The key _validate_row looks up for a row.
LookupKey(row) == KeyOf(NormalizeRow(row), unique_cols)

\* C25: in a run with a duplicate policy, the key every row is looked up
\* under is in the index, so the default is never used; the ordinal passed
\* for a row is its input position plus one, for every chunk and chunk size;
\* and the index recorded that very ordinal for the row if it is the first
\* of its key, and a smaller one otherwise.
C25_LookupsHitAndOrdinalsAgree ==
    (chunks # << >> /\ unique_cols # << >> /\ unique_mode # "ignore") =>
        \A k \in 1..Len(chunks) : \A j \in 1..Len(chunks[k][2]) :
            LET row == chunks[k][2][j]
                ord == OrdinalPassed(k, j)
            IN /\ ord = (k - 1) * CHUNK_SIZE + j
               /\ ord \in 1..Len(records)
               /\ records[ord] = row
               /\ LookupKey(row) \in DOMAIN dup_index
               /\ dup_index[LookupKey(row)][2] <= ord
               /\ (dup_index[LookupKey(row)][2] = ord) <=>
                     (\A i \in 1..(ord - 1) : LookupKey(records[i]) # LookupKey(row))

\* Three chunks of one row under keep_first; the third row repeats the key
\* of the first.
C25_Witness ==
    /\ pc = "done"
    /\ CHUNK_SIZE = 1
    /\ Len(chunks) = 3
    /\ unique_mode = "keep_first"
    /\ dup_index[LookupKey(records[3])] = << 2, 1 >>
    /\ validated_records[1].Valid = "Success"
    /\ validated_records[3].Valid = "Fail"

(* ------------------------------------------------------------------ *)
(* Bearer tokens                                                        *)
(* ------------------------------------------------------------------ *)
\* The validations the four attempts are named after, in order.
NamedAttempts ==
    << << "AzureProvider", "user" >>, << "AzureProvider", "client" >>,
       << "CognitoProvider", "user" >>, << "CognitoProvider", "client" >> >>

AuthDone == auth.at \in {"returned", "raised"}

\* C27: validate_bearer_token tries Azure user, Azure client, Cognito user,
\* Cognito client in that order, labels the claims it returns with the
\* provider and token type that validated them, and raises 401 exactly when
\* none of the four accepts the token.
C27_FourValidationsInOrder ==
    AuthDone =>
        /\ auth.calls = SubSeq(NamedAttempts, 1, Len(auth.calls))
        /\ auth.result.status = "returned" =>
               /\ auth.calls # << >>
               /\ get_provider(auth.result.provider)
                      = auth.calls[Len(auth.calls)][1]
               /\ auth.result.type = auth.calls[Len(auth.calls)][2]
               /\ auth.result.claims = "claims of " \o auth.token
        /\ auth.result.status # "returned" =>
               /\ auth.result.status = "HTTP 401"
               /\ Len(auth.calls) = Len(NamedAttempts)

(* ------------------------------------------------------------------ *)
(* Valid and Remarks of a validated row                                 *)
(* ------------------------------------------------------------------ *)
\* The violations of row i of a direct call: those of its fields, and whether
\* the duplicate policy added one.
FieldViolations(i) == RulesErrors(NormalizeRow(records[i]), rules)
DuplicateViolation(i) ==
    \E p \in 1..Len(row_errors[i]) : row_errors[i][p] = DuplicateMessage(unique_cols)

\* C26: a validated row has Valid "Success" exactly when it has no violation,
\* and then Remarks is the fixed success message; otherwise Valid is "Fail"
\* and Remarks is the violations joined by ", ", the field violations first
\* and the duplicate violation, if any, last.
C26_ValidAndRemarks ==
    pc = "direct_done" =>
        \A i \in 1..Len(validated_records) :
            LET row == validated_records[i]
                violations == IF DuplicateViolation(i)
                              THEN Append(FieldViolations(i),
                                          DuplicateMessage(unique_cols))
                              ELSE FieldViolations(i)
            IN /\ row.Valid \in {"Success", "Fail"}
               /\ row.Valid = "Success" <=> violations = << >>
               /\ row.Valid = "Success" => row.Remarks = "Validated Successfully"
               /\ row.Valid = "Fail" => row.Remarks = Join(violations)

\* A direct call returned a row with a field violation and a duplicate
\* violation, and another row without any.
C26_Witness ==
    /\ pc = "direct_done"
    /\ \E i \in 1..Len(validated_records) :
           /\ validated_records[i].Valid = "Fail"
           /\ validated_records[i].Remarks = "age invalid int, Duplicate based on email"
    /\ \E i \in 1..Len(validated_records) :
           /\ validated_records[i].Valid = "Success"
           /\ validated_records[i].Remarks = "Validated Successfully"

(* ------------------------------------------------------------------ *)
(* The publisher and the outcome of a run                               *)
(* ------------------------------------------------------------------ *)
\* What validating the whole input at once returns.
WholeInput ==
    validate_chunk(records, 1, rules, build_duplicate_index(records, unique_cols),
                   unique_cols, unique_mode)

\* The failures of a run whose collaborators other than the publisher work.
OwnFailures ==
    {"Unsupported S3 Content-Type: " \o ct : ct \in ContentTypes}
    \cup {"No rules found for rules_id=r1",
          "unterminated character set at position 0",
          "Object of type date is not JSON serializable",
          "'NoneType' object has no attribute 'getvalue'"}

\* C28: a failing publisher never changes the outcome of a run. Whichever
\* of the init, progress, completed and error events are lost, no publisher
\* error reaches the handler, a run that ends normally is completed with
\* the counts of its input, and a run that fails has failed for a reason of
\* its own, recorded in the audit record.
C28_PublisherNeverChangesOutcome ==
    /\ error # PublisherError
    /\ pc = "done" =>
          /\ audit.status = "completed"
          /\ audit.total_records = Len(records)
          /\ audit.success_count = WholeInput[2]
          /\ audit.failure_count = WholeInput[3]
          /\ validated_records = WholeInput[1]
          /\ s3 = {excel_key, json_key}
    /\ pc = "raised" =>
          /\ audit.status = "failed"
          /\ audit.error_message = error
          /\ error \in OwnFailures
          /\ s3 \subseteq {excel_key}

\* A run of several chunks with passing and failing rows completed although
\* not one of its events was published.
C28_Witness ==
    /\ pc = "done"
    /\ events = << >>
    /\ Len(chunks) > 1
    /\ audit.status = "completed"
    /\ audit.success_count > 0
    /\ audit.failure_count > 0

\* A run failed and its error event was not published, after its init
\* event was.
C28_WitnessFailed ==
    /\ pc = "raised"
    /\ audit.status = "failed"
    /\ Len(events) = 1
    /\ events[1].type = "init"

(* ------------------------------------------------------------------ *)
(* Order of the events of a run                                         *)
(* ------------------------------------------------------------------ *)
Terminal(e) == e.type \in {"completed", "error"}

\* At most one init event, no progress event before it, and neither an init
\* nor a progress event after a completed or an error event.
InitProgressOrder ==
    /\ Len(EventsOfType("init")) <= 1
    /\ \A i \in 1..Len(events) :
          events[i].type = "progress" =>
              \E k \in 1..(i - 1) : events[k].type = "init"
    /\ \A i \in 1..Len(events) :
          Terminal(events[i]) =>
              \A k \in (i + 1)..Len(events) :
                  events[k].type \notin {"init", "progress"}

\* C29 as stated: the events of a run are an init event, then progress
\* events, then one terminal event: on top of the order of init and progress
\* events, a completed or error event is the last event of the feed.
C29_OneTerminalEventLast ==
    /\ InitProgressOrder
    /\ \A i \in 1..Len(events) : Terminal(events[i]) => i = Len(events)

(* ------------------------------------------------------------------ *)
(* The status of the audit record                                       *)
(* ------------------------------------------------------------------ *)
\* The run has not got past its first statement, or is in the handler
\* because that statement raised.
BeforeRunning ==
    \/ pc = "pending"
    \/ /\ pc \in {"except", "publish_error", "raised", "handler_raised"}
       /\ error = AuditStoreError
       /\ content_type = "<unset>"

\* C30 as stated: the status only moves pending -> running -> completed or
\* failed, and is running from the first step of the run on.
C30_StatusMovesThroughRunning ==
    /\ [](audit.status = "pending" => pc = "pending")
    /\ [][audit'.status # audit.status =>
            << audit.status, audit'.status >>
                \in {<< "pending", "running" >>, << "running", "completed" >>,
                     << "running", "failed" >>}]_vars

\* C30: the status moves pending -> running -> completed or failed, or
\* pending -> failed when the RUNNING update itself raised; the RUNNING
\* update is the first step of the run, completed never follows failed nor
\* failed completed, and a terminal status is not changed again.
C30_StatusMovesForward ==
    /\ [](audit.status = "pending" => BeforeRunning)
    /\ [][audit'.status # audit.status =>
            \/ << audit.status, audit'.status >>
                   \in {<< "pending", "running" >>, << "running", "completed" >>,
                        << "running", "failed" >>}
            \/ /\ << audit.status, audit'.status >> = << "pending", "failed" >>
               /\ BeforeRunning]_vars

\* The RUNNING update raised and the handler marked the pending run failed.
C30_Witness ==
    /\ pc = "raised"
    /\ audit.status = "failed"
    /\ audit.error_message = AuditStoreError
    /\ content_type = "<unset>"
    /\ events # << >>

====
